---- MODULE Spec2Model ----
(***************************************************************************)
(* gircheck: the type-resolution and code-emission engine.                 *)
(*                                                                         *)
(* The module models the CodeWriter text buffer (src/codewriter.py), the   *)
(* static registry of well-known types and the per-entity loop of          *)
(* _write_type_names (src/gircheck.py).  One action is one iteration of    *)
(* the loop over type_names.                                               *)
(*                                                                         *)
(* Python values: None is the empty tuple, a string s is held as <<s>>     *)
(* wherever None is a possible value, and a local that was never assigned  *)
(* is Unbound.  An attribute that is absent from a node and one that is    *)
(* None take the same branch of every `hasattr(..) and .. is not None`     *)
(* test, so both are None here.                                            *)
(***************************************************************************)
EXTENDS Integers, Sequences, FiniteSets, TLC

VARIABLES
    writer,             \* the CodeWriter the rows are written to
    infoformat,         \* parameter of _write_type_names
    unregistered,       \* parameter of _write_type_names
    exclude_gtypes,     \* parameter of _write_type_names
    namespace_name,     \* parameter of _write_type_names
    node,               \* loop variable: the entity being classified
    node_type,          \* local: kind label
    fundamental_gtype,  \* local: fundamental fallback identity
    gtype_name,         \* local: resolved type name
    get_type,           \* local: resolved identity expression
    ctype,              \* local: resolved storage type
    error,              \* "none", or the exception that ended the call
    count,              \* number of loop iterations started
    keys,               \* history: the keys of unregistered_ctypes iterated so far
    mark,               \* history: Len(writer.data) when the last iteration began
    typeinfo_file,      \* merge mode: the lines of the type information file
    propinfo_file,      \* merge mode: the lines of the property information file
    typeinfo,           \* merge mode: dict built by extract_typeinfo
    propinfo,           \* merge mode: list built by extract_propinfo
    merged_file,        \* merge mode: the "-merged" output file
    lineno,             \* merge mode: lines consumed by the running loop
    pc,                 \* merge mode: position in scanner_main
    names_index,        \* module load: registered_type_names while it is built
    ctypes_index,       \* module load: registered_ctype_names while it is built
    typeval_i,          \* module load: entries of REGISTERED_TYPES iterated
    query,              \* the registry entry whose key was last looked up
    found,              \* the result of the last lookup
    ctx_stack,          \* the `with writer.scopecontext(..)` blocks that are open
    pending,            \* history: the push_scope calls not yet matched by a pop
    last,               \* history: the last CodeWriter call
    underflowed,        \* history: pop_scope was called on an empty stack
    ops,                \* number of CodeWriter calls made
    options,            \* pipeline: the typeinfo, propertyinfo, signalinfo flags
    filenames,          \* pipeline: the input files, each with its parsed namespace
    exclude_headers,    \* pipeline: the headers to comment out
    file_i,             \* pipeline: input files the loop at line 1256 is done with
    stage,              \* pipeline: position in scanner_main
    cmake_writer,       \* pipeline: the shared build-file buffer
    header_writer,      \* pipeline: the shared header buffer
    main_writer,        \* pipeline: the shared driver buffer
    pkg_index,          \* pipeline: CmakeCodeContext._pkg_index
    outputs,            \* pipeline: the files opened so far and their content
    processed,          \* history: the typeinformation_* calls made so far
    flushed,            \* history: the buffers written to their file, in order
    minified,           \* a second CodeWriter, after disable_whitespace()
    call,               \* the last call made on both writers
    ncalls              \* number of calls made on both writers

\* The parameters and locals of _write_type_names
emitVars == <<infoformat, unregistered, namespace_name,
              node, node_type, fundamental_gtype, gtype_name, get_type, ctype,
              count, keys, mark>>

\* The state of the merge branch of scanner_main
mergeVars == <<typeinfo_file, propinfo_file, typeinfo, propinfo, merged_file,
               lineno, pc>>

\* The two indices of the registry and the last lookup in them
registryVars == <<names_index, ctypes_index, typeval_i, query, found>>

\* The callers of the scope interface of CodeWriter and their history
scopeVars == <<ctx_stack, pending, last, underflowed, ops>>

\* The emission branch of scanner_main and its history
pipeVars == <<options, filenames, exclude_headers, file_i, stage, cmake_writer,
              header_writer, main_writer, pkg_index, outputs, processed,
              flushed>>

\* A writer with whitespace disabled that receives the calls `writer` receives
twinVars == <<minified, call, ncalls>>

vars == <<writer, exclude_gtypes, error, emitVars, mergeVars, registryVars,
          scopeVars, pipeVars, twinVars>>

----------------------------------------------------------------------------
(* Python values *)

None == <<>>

Some(s) == <<s>>

Unbound == <<"<unbound>", "<unbound>">>

\* "%s" % v
PyStr(v) == IF v = None THEN "None" ELSE v[1]

\* s.startswith(p)
StartsWith(s, p) == Len(s) >= Len(p) /\ SubSeq(s, 1, Len(p)) = p

\* s.replace(old, new) for a one-character old
RECURSIVE Replace(_, _, _)
Replace(s, old, new) ==
    IF s = "" THEN ""
    ELSE LET c == SubSeq(s, 1, 1)
         IN  (IF c = old THEN new ELSE c) \o Replace(SubSeq(s, 2, Len(s)), old, new)

\* c * n
RECURSIVE Repeat(_, _)
Repeat(c, n) == IF n <= 0 THEN "" ELSE c \o Repeat(c, n - 1)

\* The characters str.strip() removes
Whitespace == {" ", "\n", "\t", "\r"}

RECURSIVE LStrip(_)
LStrip(s) ==
    IF s # "" /\ SubSeq(s, 1, 1) \in Whitespace THEN LStrip(SubSeq(s, 2, Len(s))) ELSE s

RECURSIVE RStrip(_)
RStrip(s) ==
    IF s # "" /\ SubSeq(s, Len(s), Len(s)) \in Whitespace
    THEN RStrip(SubSeq(s, 1, Len(s) - 1)) ELSE s

\* s.strip()
Strip(s) == RStrip(LStrip(s))

\* s.find(c, i - 1) + 1 for a one-character c: the first position >= i of c
\* in s, or 0
Find(s, c, i) ==
    LET hits == {j \in i..Len(s) : SubSeq(s, j, j) = c}
    IN  IF hits = {} THEN 0 ELSE CHOOSE j \in hits : \A k \in hits : j <= k

\* s.split(sep) for a one-character sep
RECURSIVE Split(_, _)
Split(s, sep) ==
    LET i == Find(s, sep, 1)
    IN  IF i = 0 THEN <<s>>
        ELSE <<SubSeq(s, 1, i - 1)>> \o Split(SubSeq(s, i + 1, Len(s)), sep)

\* s.splitlines() for text whose only line boundary is "\n"
SplitLines(s) ==
    IF s = "" THEN <<>>
    ELSE LET parts == Split(s, "\n")
         IN  IF parts[Len(parts)] = "" THEN SubSeq(parts, 1, Len(parts) - 1)
             ELSE parts

\* The characters of package and header names, in code point order
CodePoints == "+-./0123456789ABCDEFGHIJKLMNOPQRSTUVWXYZ_abcdefghijklmnopqrstuvwxyz"

\* ord(c), up to a monotone renumbering
Ord(c) == Find(CodePoints, c, 1)

\* a < b for two str values
RECURSIVE StrLess(_, _)
StrLess(a, b) ==
    IF a = "" THEN b # ""
    ELSE IF b = "" THEN FALSE
    ELSE LET x == Ord(SubSeq(a, 1, 1))
             y == Ord(SubSeq(b, 1, 1))
         IN  IF x # y THEN x < y
             ELSE StrLess(SubSeq(a, 2, Len(a)), SubSeq(b, 2, Len(b)))

\* sorted(S) for a set of str
RECURSIVE Sorted(_)
Sorted(S) ==
    IF S = {} THEN <<>>
    ELSE LET m == CHOOSE x \in S : \A y \in S \ {x} : StrLess(x, y)
         IN  <<m>> \o Sorted(S \ {m})

\* str(i) for a natural number
RECURSIVE Str(_)
Str(i) ==
    IF i < 10 THEN SubSeq("0123456789", i + 1, i + 1)
    ELSE Str(i \div 10) \o Str(i % 10)

----------------------------------------------------------------------------
(* The registry of well-known types *)

RegisteredType(gtype_name_, ctype_, get_type_) ==
    [gtype_name |-> gtype_name_, ctype |-> ctype_, get_type |-> get_type_]

REGISTERED_TYPES == <<
    RegisteredType("invalid", "invalid", "G_TYPE_INVALID"),
    RegisteredType("none", "void", "G_TYPE_NONE"),
    RegisteredType("GTypeInterface", "GTypeInterface", "G_TYPE_INTERFACE"),
    RegisteredType("gboolean", "gboolean", "G_TYPE_BOOLEAN"),
    RegisteredType("gsize", "gsize", "G_TYPE_ULONG"),
    RegisteredType("gssize", "gssize", "G_TYPE_LONG"),
    RegisteredType("gint8", "gint8", "G_TYPE_CHAR"),
    RegisteredType("guint8", "guint8", "G_TYPE_UCHAR"),
    RegisteredType("gint16", "gint16", "G_TYPE_INT"),
    RegisteredType("guint16", "guint16", "G_TYPE_UINT"),
    RegisteredType("gint32", "gint32", "G_TYPE_INT"),
    RegisteredType("guint32", "guint32", "G_TYPE_UINT"),
    RegisteredType("gint64", "gint64", "G_TYPE_INT64"),
    RegisteredType("guint64", "guint64", "G_TYPE_UINT64"),
    RegisteredType("gpointer", "gpointer", "G_TYPE_POINTER"),
    RegisteredType("gconstpointer", "gconstpointer", "G_TYPE_POINTER"),
    RegisteredType("gchar", "gchar", "G_TYPE_CHAR"),
    RegisteredType("guchar", "guchar", "G_TYPE_UCHAR"),
    RegisteredType("gint", "gint", "G_TYPE_INT"),
    RegisteredType("guint", "guint", "G_TYPE_UINT"),
    RegisteredType("gshort", "gshort", "G_TYPE_INT"),
    RegisteredType("gushort", "gushort", "G_TYPE_UINT"),
    RegisteredType("glong", "glong", "G_TYPE_LONG"),
    RegisteredType("gulong", "gulong", "G_TYPE_ULONG"),
    RegisteredType("gfloat", "gfloat", "G_TYPE_FLOAT"),
    RegisteredType("gdouble", "gdouble", "G_TYPE_DOUBLE"),
    RegisteredType("goffset", "goffset", "G_TYPE_INT64"),
    RegisteredType("gintptr", "gintptr", "G_TYPE_POINTER"),
    RegisteredType("guintptr", "guintptr", "G_TYPE_POINTER"),
    RegisteredType("GObject", "GObject", "G_TYPE_OBJECT"),
    RegisteredType("GVariant", "GVariant", "G_TYPE_VARIANT"),
    RegisteredType("GChecksum", "GChecksum", "G_TYPE_CHECKSUM"),
    RegisteredType("GEnum", "gint", "G_TYPE_ENUM"),
    RegisteredType("GFlags", "gint", "G_TYPE_FLAGS"),
    RegisteredType("long long", "long long", "G_TYPE_INT64"),
    RegisteredType("unsigned long long", "unsigned long long", "G_TYPE_UINT64"),
    RegisteredType("long double", "long double", "G_TYPE_DOUBLE"),
    RegisteredType("gunichar", "gunichar", "G_TYPE_INT"),
    RegisteredType("gunichar2", "gunichar2", "G_TYPE_INT"),
    RegisteredType("GType", "GType", "G_TYPE_GTYPE"),
    RegisteredType("utf8", "gchar*", "G_TYPE_STRING"),
    RegisteredType("filename", "gchar*", "G_TYPE_STRING"),
    RegisteredType("GBoxed", "GBoxed", "G_TYPE_BOXED"),
    RegisteredType("GHashTable", "GHashTable", "G_TYPE_HASH_TABLE"),
    RegisteredType("GDate", "GDate", "G_TYPE_DATE"),
    RegisteredType("GString", "GString", "G_TYPE_GSTRING"),
    RegisteredType("GStrv", "gchar**", "G_TYPE_STRV"),
    RegisteredType("GRegex", "GRegex", "G_TYPE_REGEX"),
    RegisteredType("GMatchInfo", "GMatchInfo", "G_TYPE_MATCH_INFO"),
    RegisteredType("GArray", "GArray", "G_TYPE_ARRAY"),
    RegisteredType("GByteArray", "GByteArray", "G_TYPE_BYTE_ARRAY"),
    RegisteredType("GPtrArray", "GPtrArray", "G_TYPE_PTR_ARRAY"),
    RegisteredType("GBytes", "GBytes", "G_TYPE_BYTES"),
    RegisteredType("GVariantType", "GVariantType", "G_TYPE_VARIANT_TYPE"),
    RegisteredType("GError", "GError", "G_TYPE_ERROR"),
    RegisteredType("GDateTime", "GDateTime", "G_TYPE_DATE_TIME"),
    RegisteredType("GTimeZone", "GTimeZone", "G_TYPE_TIME_ZONE"),
    RegisteredType("GIOChannel", "GIOChannel", "G_TYPE_IO_CHANNEL"),
    RegisteredType("GIOCondition", "GIOCondition", "G_TYPE_IO_CONDITION"),
    RegisteredType("GVariantBuilder", "GVariantBuilder", "G_TYPE_VARIANT_BUILDER"),
    RegisteredType("GVariantDict", "GVariantDict", "G_TYPE_VARIANT_DICT"),
    RegisteredType("GKeyFile", "GKeyFile", "G_TYPE_KEY_FILE"),
    RegisteredType("GMainContext", "GMainContext", "G_TYPE_MAIN_CONTEXT"),
    RegisteredType("GMainLoop", "GMainLoop", "G_TYPE_MAIN_LOOP"),
    RegisteredType("GMappedFile", "GMappedFile", "G_TYPE_MAPPED_FILE"),
    RegisteredType("GMarkupParseContext", "GMarkupParseContext", "G_TYPE_MARKUP_PARSE_CONTEXT"),
    RegisteredType("GSource", "GSource", "G_TYPE_SOURCE"),
    RegisteredType("GPollFD", "GPollFD", "G_TYPE_POLLFD"),
    RegisteredType("GThread", "GThread", "G_TYPE_THREAD"),
    RegisteredType("GOptionGroup", "GOptionGroup", "G_TYPE_OPTION_GROUP"),
    RegisteredType("GParam", "GParamSpec", "G_TYPE_PARAM"),
    RegisteredType("GParamChar", "GParamChar", "G_TYPE_PARAM_CHAR"),
    RegisteredType("GParamUChar", "GParamUChar", "G_TYPE_PARAM_UCHAR"),
    RegisteredType("GParamBoolean", "GParamBoolean", "G_TYPE_PARAM_BOOLEAN"),
    RegisteredType("GParamInt", "GParamInt", "G_TYPE_PARAM_INT"),
    RegisteredType("GParamUInt", "GParamUInt", "G_TYPE_PARAM_UINT"),
    RegisteredType("GParamLong", "GParamLong", "G_TYPE_PARAM_LONG"),
    RegisteredType("GParamULong", "GParamULong", "G_TYPE_PARAM_ULONG"),
    RegisteredType("GParamInt64", "GParamInt64", "G_TYPE_PARAM_INT64"),
    RegisteredType("GParamUInt64", "GParamUInt64", "G_TYPE_PARAM_UINT64"),
    RegisteredType("GParamUnichar", "GParamUnichar", "G_TYPE_PARAM_UNICHAR"),
    RegisteredType("GParamEnum", "GParamEnum", "G_TYPE_PARAM_ENUM"),
    RegisteredType("GParamFlags", "GParamFlags", "G_TYPE_PARAM_FLAGS"),
    RegisteredType("GParamFloat", "GParamFloat", "G_TYPE_PARAM_FLOAT"),
    RegisteredType("GParamDouble", "GParamDouble", "G_TYPE_PARAM_DOUBLE"),
    RegisteredType("GParamString", "GParamString", "G_TYPE_PARAM_STRING"),
    RegisteredType("GParamParam", "GParamParam", "G_TYPE_PARAM_PARAM"),
    RegisteredType("GParamBoxed", "GParamBoxed", "G_TYPE_PARAM_BOXED"),
    RegisteredType("GParamPointer", "GParamPointer", "G_TYPE_PARAM_POINTER"),
    RegisteredType("GParamValueArray", "GParamValueArray", "G_TYPE_PARAM_VALUE_ARRAY"),
    RegisteredType("GParamObject", "GParamObject", "G_TYPE_PARAM_OBJECT"),
    RegisteredType("GParamOverride", "GParamOverride", "G_TYPE_PARAM_OVERRIDE"),
    RegisteredType("GParamGType", "GParamGType", "G_TYPE_PARAM_GTYPE"),
    RegisteredType("GParamVariant", "GParamVariant", "G_TYPE_PARAM_VARIANT")
>>

\* d[k] = v on a dict held as a function
DictSet(d, k, v) == (k :> v) @@ d

EmptyDict == <<>>

\* dict.get(k): the value, or None
DictGet(d, k) == IF k \in DOMAIN d THEN Some(d[k]) ELSE None

\* The dict left by the assignments registered_type_names[typeval.gtype_name]
\* = typeval of the loop over REGISTERED_TYPES, for the entries lo..hi in list
\* order: the assignments of the second half of the range override those of
\* the first
RECURSIVE IndexByGtypeName(_, _)
IndexByGtypeName(lo, hi) ==
    IF lo > hi THEN EmptyDict
    ELSE IF lo = hi
    THEN DictSet(EmptyDict, Some(REGISTERED_TYPES[lo].gtype_name), REGISTERED_TYPES[lo])
    ELSE LET mid == (lo + hi) \div 2
         IN  IndexByGtypeName(mid + 1, hi) @@ IndexByGtypeName(lo, mid)

registered_type_names == IndexByGtypeName(1, Len(REGISTERED_TYPES))

\* The dict left by the assignments registered_ctype_names[typeval.ctype] =
\* typeval of the same loop
RECURSIVE IndexByCtype(_, _)
IndexByCtype(lo, hi) ==
    IF lo > hi THEN EmptyDict
    ELSE IF lo = hi
    THEN DictSet(EmptyDict, REGISTERED_TYPES[lo].ctype, REGISTERED_TYPES[lo])
    ELSE LET mid == (lo + hi) \div 2
         IN  IndexByCtype(mid + 1, hi) @@ IndexByCtype(lo, mid)

registered_ctype_names == IndexByCtype(1, Len(REGISTERED_TYPES))

----------------------------------------------------------------------------
(* CodeWriter *)

COMMENT_C == "/* "

\* CodeWriter(begin_comment) for the C comment style.  data holds the chunks
\* passed to StringIO.write, one element per call; the licence header the
\* constructor writes and the lines written ahead of the function scope are
\* left out of it.
CodeWriter ==
    [data           |-> <<>>,
     begin_comment  |-> COMMENT_C,
     middle_comment |-> " * ",
     end_comment    |-> " */",
     scope_stack    |-> <<>>,
     indent         |-> 0,
     indent_unit    |-> 2,
     indent_char    |-> " ",
     newline_char   |-> "\n"]

\* write_newline that writes the newline whatever the whitespace mode
write_newline_always(w) == [w EXCEPT !.data = Append(@, "\n")]

\* write_newline, lines 110-111
write_newline(w) == [w EXCEPT !.data = Append(@, w.newline_char)]

\* _write_data with do_escape = False (no caller passes do_escape)
write_data(w, line, indent) ==
    [w EXCEPT !.data =
        Append(@, IF indent THEN Repeat(w.indent_char, w.indent) \o line ELSE line)]

write_source(w, line, indent) == write_data(w, line, indent)

write_line(w, line, indent) == write_newline(write_source(w, line, indent))

open_scope(w, scope_name) ==
    write_line(w, "{ " \o w.begin_comment \o scope_name \o w.end_comment, TRUE)

\* push_scope that raises the indentation before it writes the marker
push_scope_indent_first(w, scope_name) ==
    LET w1 == [w EXCEPT !.indent = @ + w.indent_unit]
    IN  [open_scope(w1, scope_name) EXCEPT !.scope_stack = Append(@, scope_name)]

push_scope(w, scope_name) ==
    LET w1 == open_scope(w, scope_name)
    IN  [w1 EXCEPT !.scope_stack = Append(@, scope_name),
                   !.indent = @ + w.indent_unit]

close_scope(w, scope_name) ==
    write_line(w, "} " \o w.begin_comment \o scope_name \o w.end_comment, TRUE)

\* pop_scope that closes an unnamed scope when the stack is empty
pop_scope_lenient(w) ==
    LET w1 == [w EXCEPT !.indent = @ - w.indent_unit]
    IN  IF w.scope_stack = <<>>
        THEN [raised |-> FALSE, writer |-> close_scope(w1, ""), scope_name |-> Some("")]
        ELSE LET scope_name == w.scope_stack[Len(w.scope_stack)]
                 w2 == [w1 EXCEPT !.scope_stack = SubSeq(@, 1, Len(@) - 1)]
             IN  [raised |-> FALSE, writer |-> close_scope(w2, scope_name),
                  scope_name |-> Some(scope_name)]

\* pop_scope: the indentation is lowered first; list.pop() raises IndexError
\* on an empty list and nothing more is done
pop_scope(w) ==
    LET w1 == [w EXCEPT !.indent = @ - w.indent_unit]
    IN  IF w.scope_stack = <<>>
        THEN [raised |-> TRUE, writer |-> w1, scope_name |-> None]
        ELSE LET scope_name == w.scope_stack[Len(w.scope_stack)]
                 w2 == [w1 EXCEPT !.scope_stack = SubSeq(@, 1, Len(@) - 1)]
             IN  [raised |-> FALSE, writer |-> close_scope(w2, scope_name),
                  scope_name |-> Some(scope_name)]

\* scopecontext whose pop_scope is skipped when the body raised
scopecontext_exit_no_finally(w, failed) ==
    IF failed THEN [raised |-> FALSE, writer |-> w, scope_name |-> None]
    ELSE pop_scope(w)

\* scopecontext, lines 162-165: the finally clause runs pop_scope whether the
\* body returned or raised
scopecontext_exit(w, failed) == pop_scope(w)

\* `for line in lines: self.write_line(middle + line)`
RECURSIVE write_comment_lines(_, _)
write_comment_lines(w, lines) ==
    IF lines = <<>> THEN w
    ELSE write_comment_lines(write_line(w, w.middle_comment \o lines[1], TRUE),
                             SubSeq(lines, 2, Len(lines)))

\* write_comment, lines 132-144
write_comment(w, text) ==
    LET lines == SplitLines(text)
    IN  IF Len(lines) = 1
        THEN write_line(w, w.begin_comment \o text \o w.end_comment, TRUE)
        ELSE LET w1 == write_comment_lines(write_line(w, w.begin_comment, TRUE), lines)
                 w2 == IF w.end_comment # "" THEN write_source(w1, w.end_comment, TRUE)
                       ELSE write_source(w1, w.begin_comment, TRUE)
             IN  write_newline(w2)

\* CodeWriter(begin_comment), lines 33-58, for every begin_comment
CodeWriterFor(begin_comment) ==
    [CodeWriter EXCEPT
        !.begin_comment = IF begin_comment \in {"/* ", "(* ", "# ", "// "}
                          THEN begin_comment ELSE "",
        !.middle_comment = IF begin_comment \in {"/* ", "(* "} THEN " * "
                           ELSE IF begin_comment \in {"# ", "// "} THEN begin_comment
                           ELSE "",
        !.end_comment = IF begin_comment = "/* " THEN " */"
                        ELSE IF begin_comment = "(* " THEN " *)"
                        ELSE ""]

\* disable_whitespace, lines 98-100
disable_whitespace(w) == [w EXCEPT !.indent_char = "", !.newline_char = ""]

\* CodeWriter(COMMENT_HASH), lines 44-46
CodeWriterHash ==
    [CodeWriter EXCEPT !.begin_comment = "# ", !.middle_comment = "# ",
                       !.end_comment = ""]

----------------------------------------------------------------------------
(* _write_type_names: classification of one entity *)

\* isinstance(n, ast.<cls>): a node carries the set of ast classes it is an
\* instance of
IsInstance(n, cls) == cls \in n.caps

\* NodeType with the Union check moved ahead of the Record check
NodeTypeUnionFirst(n) ==
    IF IsInstance(n, "Function") THEN "function"
    ELSE IF IsInstance(n, "FunctionMacro") THEN "functionmacro"
    ELSE IF IsInstance(n, "Enum") THEN "enum"
    ELSE IF IsInstance(n, "Bitfield") THEN "bitfield"
    ELSE IF IsInstance(n, "Class") THEN "class"
    ELSE IF IsInstance(n, "Interface") THEN "interface"
    ELSE IF IsInstance(n, "Callback") THEN "callback"
    ELSE IF IsInstance(n, "Union") THEN "union"
    ELSE IF IsInstance(n, "Record") THEN "record"
    ELSE IF IsInstance(n, "Boxed") THEN "boxed"
    ELSE IF IsInstance(n, "Member") THEN "member"
    ELSE IF IsInstance(n, "Alias") THEN "alias"
    ELSE IF IsInstance(n, "Constant") THEN "constant"
    ELSE IF IsInstance(n, "Type") THEN "type"
    ELSE IF IsInstance(n, "Registered") THEN "registered"
    ELSE "unknown"

NodeType(n) ==
    IF IsInstance(n, "Function") THEN "function"
    ELSE IF IsInstance(n, "FunctionMacro") THEN "functionmacro"
    ELSE IF IsInstance(n, "Enum") THEN "enum"
    ELSE IF IsInstance(n, "Bitfield") THEN "bitfield"
    ELSE IF IsInstance(n, "Class") THEN "class"
    ELSE IF IsInstance(n, "Interface") THEN "interface"
    ELSE IF IsInstance(n, "Callback") THEN "callback"
    ELSE IF IsInstance(n, "Record") THEN "record"
    ELSE IF IsInstance(n, "Union") THEN "union"
    ELSE IF IsInstance(n, "Boxed") THEN "boxed"
    ELSE IF IsInstance(n, "Member") THEN "member"
    ELSE IF IsInstance(n, "Alias") THEN "alias"
    ELSE IF IsInstance(n, "Constant") THEN "constant"
    ELSE IF IsInstance(n, "Type") THEN "type"
    ELSE IF IsInstance(n, "Registered") THEN "registered"
    ELSE "unknown"

\* FundamentalGtype with the assignment missing from the Union branch
FundamentalGtypeUnionUnset(n, prev) ==
    IF IsInstance(n, "Function") THEN prev
    ELSE IF IsInstance(n, "FunctionMacro") THEN prev
    ELSE IF IsInstance(n, "Enum") THEN "G_TYPE_ENUM"
    ELSE IF IsInstance(n, "Bitfield") THEN "G_TYPE_FLAGS"
    ELSE IF IsInstance(n, "Class") THEN "G_TYPE_OBJECT"
    ELSE IF IsInstance(n, "Interface") THEN "G_TYPE_INTERFACE"
    ELSE IF IsInstance(n, "Callback") THEN "G_TYPE_POINTER"
    ELSE IF IsInstance(n, "Record") THEN "G_TYPE_BOXED"
    ELSE IF IsInstance(n, "Union") THEN prev
    ELSE IF IsInstance(n, "Boxed") THEN "G_TYPE_BOXED"
    ELSE IF IsInstance(n, "Member") THEN "G_TYPE_INT"
    ELSE IF IsInstance(n, "Alias") THEN prev
    ELSE IF IsInstance(n, "Constant") THEN "G_TYPE_INVALID"
    ELSE prev

\* fundamental_gtype after the isinstance chain; prev is its value when the
\* iteration begins (it is assigned once, before the loop)
FundamentalGtype(n, prev) ==
    IF IsInstance(n, "Function") THEN prev
    ELSE IF IsInstance(n, "FunctionMacro") THEN prev
    ELSE IF IsInstance(n, "Enum") THEN "G_TYPE_ENUM"
    ELSE IF IsInstance(n, "Bitfield") THEN "G_TYPE_FLAGS"
    ELSE IF IsInstance(n, "Class") THEN "G_TYPE_OBJECT"
    ELSE IF IsInstance(n, "Interface") THEN "G_TYPE_INTERFACE"
    ELSE IF IsInstance(n, "Callback") THEN "G_TYPE_POINTER"
    ELSE IF IsInstance(n, "Record") THEN "G_TYPE_BOXED"
    ELSE IF IsInstance(n, "Union") THEN "G_TYPE_BOXED"
    ELSE IF IsInstance(n, "Boxed") THEN "G_TYPE_BOXED"
    ELSE IF IsInstance(n, "Member") THEN "G_TYPE_INT"
    ELSE IF IsInstance(n, "Alias") THEN prev
    ELSE IF IsInstance(n, "Constant") THEN "G_TYPE_INVALID"
    ELSE prev

\* ResolveGtypeName that falls back to target_fundamental in either mode
ResolveGtypeNameAnyMode(n, unreg) ==
    IF n.gtype_name # None THEN n.gtype_name
    ELSE n.target_fundamental

ResolveGtypeName(n, unreg) ==
    IF n.gtype_name # None THEN n.gtype_name
    ELSE IF unreg = FALSE THEN n.target_fundamental
    ELSE Some("")

\* ResolveGetType that looks 'intern' up by node.gtype_name instead of the
\* resolved type name
ResolveGetTypeByExplicitName(n, gn, fg, unreg) ==
    IF n.get_type # None
    THEN IF n.get_type = Some("intern")
         THEN LET type_node == DictGet(registered_type_names, n.gtype_name)
              IN  IF type_node # None
                  THEN [raised |-> FALSE, value |-> type_node[1].get_type]
                  ELSE IF n.gtype_name = None
                       THEN [raised |-> TRUE, value |-> "intern"]
                       ELSE [raised |-> FALSE,
                             value |-> n.gtype_name[1] \o "not found"]
         ELSE IF ~StartsWith(n.get_type[1], "G_TYPE_")
              THEN [raised |-> FALSE, value |-> n.get_type[1] \o "()"]
              ELSE [raised |-> FALSE, value |-> n.get_type[1]]
    ELSE IF unreg = FALSE
         THEN [raised |-> FALSE,
               value |-> "g_type_from_name(\"" \o PyStr(n.target_fundamental) \o "\")"]
         ELSE [raised |-> FALSE, value |-> fg]

\* ResolveGetType that appends '()' without testing the prefix
ResolveGetTypeAlwaysCall(n, gn, fg, unreg) ==
    IF n.get_type # None
    THEN IF n.get_type = Some("intern")
         THEN LET type_node == DictGet(registered_type_names, gn)
              IN  IF type_node # None
                  THEN [raised |-> FALSE, value |-> type_node[1].get_type]
                  ELSE IF n.gtype_name = None
                       THEN [raised |-> TRUE, value |-> "intern"]
                       ELSE [raised |-> FALSE,
                             value |-> n.gtype_name[1] \o "not found"]
         ELSE [raised |-> FALSE, value |-> n.get_type[1] \o "()"]
    ELSE IF unreg = FALSE
         THEN [raised |-> FALSE,
               value |-> "g_type_from_name(\"" \o PyStr(n.target_fundamental) \o "\")"]
         ELSE [raised |-> FALSE, value |-> fg]

\* The get_type local after lines 401-416, or the exception raised there:
\* node.gtype_name + "not found" raises TypeError when node.gtype_name is
\* None (AttributeError when the attribute is absent); get_type then still
\* holds 'intern'.
ResolveGetType(n, gn, fg, unreg) ==
    IF n.get_type # None
    THEN IF n.get_type = Some("intern")
         THEN LET type_node == DictGet(registered_type_names, gn)
              IN  IF type_node # None
                  THEN [raised |-> FALSE, value |-> type_node[1].get_type]
                  ELSE IF n.gtype_name = None
                       THEN [raised |-> TRUE, value |-> "intern"]
                       ELSE [raised |-> FALSE,
                             value |-> n.gtype_name[1] \o "not found"]
         ELSE IF ~StartsWith(n.get_type[1], "G_TYPE_")
              THEN [raised |-> FALSE, value |-> n.get_type[1] \o "()"]
              ELSE [raised |-> FALSE, value |-> n.get_type[1]]
    ELSE IF unreg = FALSE
         THEN [raised |-> FALSE,
               value |-> "g_type_from_name(\"" \o PyStr(n.target_fundamental) \o "\")"]
         ELSE [raised |-> FALSE, value |-> fg]

\* ResolveCtype that prefers complete_ctype to ctype
ResolveCtypeCompleteFirst(n, gn, prev) ==
    IF n.complete_ctype # None THEN [ctype |-> n.complete_ctype, warn |-> FALSE]
    ELSE IF n.ctype # None THEN [ctype |-> n.ctype, warn |-> FALSE]
    ELSE IF gn # None THEN [ctype |-> gn, warn |-> TRUE]
    ELSE [ctype |-> prev, warn |-> FALSE]

\* The ctype local after lines 418-425 (prev is its value before them) and
\* whether the warning comment is written
ResolveCtype(n, gn, prev) ==
    IF n.ctype # None THEN [ctype |-> n.ctype, warn |-> FALSE]
    ELSE IF n.complete_ctype # None THEN [ctype |-> n.complete_ctype, warn |-> FALSE]
    ELSE IF gn # None THEN [ctype |-> gn, warn |-> TRUE]
    ELSE [ctype |-> prev, warn |-> FALSE]

WarningLine(gn) ==
    "/* WARNING: ctype is missing for '" \o PyStr(gn) \o "' in GIR file */"

\* gtype_name is not None and gtype_name in exclude_gtypes
Excluded(gn, excl) == gn # None /\ gn[1] \in excl

\* get_type.replace('"', '\\"')
EscapeQuotes(s) == Replace(s, "\"", "\\\"")

SignalRow(ns, nt, gn, gt) ==
    "print_object_signals(stdout," \o EscapeQuotes(gt) \o ",\"" \o ns \o "\",\""
        \o nt \o "\",\"" \o PyStr(gn) \o "\");"

PropertyRow(ns, nt, gn, gt) ==
    "print_object_properties(stdout," \o EscapeQuotes(gt) \o ",\"" \o ns \o "\",\""
        \o nt \o "\",\"" \o PyStr(gn) \o "\");"

TypeRowFormat == "printf(\"%s,%s,%s,%s,%s,%s\\n\","

TypeRowArgs(ns, nt, gn, ct, gt) ==
    " \"" \o ns \o "\", \"" \o nt \o "\", \"" \o PyStr(gn) \o "\", \"" \o PyStr(ct)
        \o "\", \"" \o EscapeQuotes(gt)
        \o "\", g_type_fundamental_tostring((unsigned long)" \o gt \o "));"

\* EmitRow that never writes the closing marker
EmitRowUnclosed(w, fmt, excl, ns, nt, gn, ct, gt) ==
    LET w1 == IF Excluded(gn, excl) THEN write_source(w, "/*", TRUE) ELSE w
    IN  IF fmt = "signalinfo"
        THEN [raised |-> FALSE,
              writer |-> write_line(w1, SignalRow(ns, nt, gn, gt), TRUE)]
        ELSE IF fmt = "propertyinfo"
        THEN [raised |-> FALSE,
              writer |-> write_line(w1, PropertyRow(ns, nt, gn, gt), TRUE)]
        ELSE LET w2 == write_source(w1, TypeRowFormat, TRUE)
             IN  IF ct = Unbound
                 THEN [raised |-> TRUE, writer |-> w2]
                 ELSE [raised |-> FALSE,
                       writer |-> write_line(w2, TypeRowArgs(ns, nt, gn, ct, gt), FALSE)]

\* EmitRow that brackets the row in the type-info shape only
EmitRowWrapTypeInfoOnly(w, fmt, excl, ns, nt, gn, ct, gt) ==
    IF fmt = "signalinfo"
    THEN [raised |-> FALSE,
          writer |-> write_line(w, SignalRow(ns, nt, gn, gt), TRUE)]
    ELSE IF fmt = "propertyinfo"
    THEN [raised |-> FALSE,
          writer |-> write_line(w, PropertyRow(ns, nt, gn, gt), TRUE)]
    ELSE LET w1 == IF Excluded(gn, excl) THEN write_source(w, "/*", TRUE) ELSE w
             Close(w3) == IF Excluded(gn, excl) THEN write_line(w3, "*/", TRUE) ELSE w3
             w2 == write_source(w1, TypeRowFormat, TRUE)
         IN  IF ct = Unbound
             THEN [raised |-> TRUE, writer |-> w2]
             ELSE [raised |-> FALSE,
                   writer |-> Close(write_line(w2, TypeRowArgs(ns, nt, gn, ct, gt), FALSE))]

\* Lines 427-439: the row of one entity, bracketed by the exclusion markers.
\* The printf format is written before the argument line is built, so an
\* unassigned ctype raises UnboundLocalError after the format chunk.
EmitRow(w, fmt, excl, ns, nt, gn, ct, gt) ==
    LET w1 == IF Excluded(gn, excl) THEN write_source(w, "/*", TRUE) ELSE w
        Close(w3) == IF Excluded(gn, excl) THEN write_line(w3, "*/", TRUE) ELSE w3
    IN  IF fmt = "signalinfo"
        THEN [raised |-> FALSE,
              writer |-> Close(write_line(w1, SignalRow(ns, nt, gn, gt), TRUE))]
        ELSE IF fmt = "propertyinfo"
        THEN [raised |-> FALSE,
              writer |-> Close(write_line(w1, PropertyRow(ns, nt, gn, gt), TRUE))]
        ELSE LET w2 == write_source(w1, TypeRowFormat, TRUE)
             IN  IF ct = Unbound
                 THEN [raised |-> TRUE, writer |-> w2]
                 ELSE [raised |-> FALSE,
                       writer |-> Close(write_line(w2, TypeRowArgs(ns, nt, gn, ct, gt), FALSE))]

----------------------------------------------------------------------------
(* _write_type_names: the whole call *)

\* Lines 349-439: one iteration of the loop, on the writer and the two locals
\* that keep their value from one iteration to the next
WriteTypeNameBody(st, excl, ns, n, fmt, unreg) ==
    LET nt == NodeType(n)
        fg == FundamentalGtype(n, st.fundamental_gtype)
        gn == ResolveGtypeName(n, unreg)
        gt == ResolveGetType(n, gn, fg, unreg)
        ct == ResolveCtype(n, gn, st.ctype)
        w1 == IF ct.warn THEN write_line(st.writer, WarningLine(gn), TRUE)
              ELSE st.writer
        row == EmitRow(w1, fmt, excl, ns, nt, gn, ct.ctype, gt.value)
    IN  IF gt.raised
        THEN [st EXCEPT !.fundamental_gtype = fg, !.error = "TypeError"]
        ELSE [writer            |-> row.writer,
              fundamental_gtype |-> fg,
              ctype             |-> ct.ctype,
              error             |-> IF row.raised THEN "UnboundLocalError" ELSE "none"]

\* `for key, node in type_names.items()` over the entries lo..hi; an exception
\* ends the loop
RECURSIVE WriteTypeNamesFrom(_, _, _, _, _, _, _, _)
WriteTypeNamesFrom(st, excl, ns, type_names, lo, hi, fmt, unreg) ==
    IF lo > hi THEN st
    ELSE IF lo = hi THEN WriteTypeNameBody(st, excl, ns, type_names[lo], fmt, unreg)
    ELSE LET mid == (lo + hi) \div 2
             st1 == WriteTypeNamesFrom(st, excl, ns, type_names, lo, mid, fmt, unreg)
         IN  IF st1.error # "none" THEN st1
             ELSE WriteTypeNamesFrom(st1, excl, ns, type_names, mid + 1, hi, fmt, unreg)

\* _write_type_names, lines 346-439; type_names holds the values of the dict
\* in iteration order
write_type_names(w, excl, ns, type_names, fmt, unreg) ==
    LET st == WriteTypeNamesFrom([writer            |-> w,
                                  fundamental_gtype |-> "G_TYPE_INVALID",
                                  ctype             |-> Unbound,
                                  error             |-> "none"],
                                 excl, ns, type_names, 1, Len(type_names), fmt, unreg)
    IN  [raised |-> st.error # "none", error |-> st.error, writer |-> st.writer]

----------------------------------------------------------------------------
(* typeinformation_gir, typeinformation_ctypes, typeinformation_registered *)

\* The first line every per-namespace source file starts with
SourceIncludes == "#include \"girtypes.h\"\n#include <glib-2.0/glib-object.h>"

\* Lines 473, 511, 535
PrototypeLine(ns) == "void print_" \o ns \o "_types();"

\* Lines 474-475, 512-513, 536-537; infix is "" or "ctypes"
DriverLines(ns, infix) ==
    <<"    fprintf(stderr, \"processing " \o ns
          \o (IF infix = "" THEN "" ELSE " " \o infix) \o " types....\\n\");",
      "    print_" \o ns \o (IF infix = "" THEN "" ELSE "_" \o infix) \o "_types();">>

\* A pass that declares a namespace only if no earlier pass declared it
AnnounceOncePerNamespace(sh, ns, infix) ==
    IF \E i \in DOMAIN sh.header_writer.data :
           sh.header_writer.data[i] = PrototypeLine(ns)
    THEN sh
    ELSE [sh EXCEPT
             !.header_writer = write_line(@, PrototypeLine(ns), TRUE),
             !.main_writer = write_line(write_line(@, DriverLines(ns, infix)[1], TRUE),
                                        DriverLines(ns, infix)[2], TRUE)]

\* The three writes with the call written ahead of the progress message
AnnounceCallFirst(sh, ns, infix) ==
    [sh EXCEPT
        !.header_writer = write_line(@, PrototypeLine(ns), TRUE),
        !.main_writer = write_line(write_line(@, DriverLines(ns, infix)[2], TRUE),
                                   DriverLines(ns, infix)[1], TRUE)]

\* The three writes to the shared header and driver buffers that each of the
\* three functions makes ahead of its function scope
Announce(sh, ns, infix) ==
    [sh EXCEPT
        !.header_writer = write_line(@, PrototypeLine(ns), TRUE),
        !.main_writer = write_line(write_line(@, DriverLines(ns, infix)[1], TRUE),
                                   DriverLines(ns, infix)[2], TRUE)]

\* Lines 450-457 with an index that counts the packages of one namespace
RECURSIVE WritePackagesLocalIndex(_, _)
WritePackagesLocalIndex(sh, pkgs) ==
    IF pkgs = <<>> THEN sh
    ELSE LET i == Str(Len(pkgs))
             c1 == write_line(sh.cmake_writer,
                     "pkg_check_modules (PKG" \o i \o " REQUIRED " \o pkgs[1] \o ")", TRUE)
             c2 == write_line(c1,
                     "list(APPEND PROJECT_INCLUDE_DIRECTORIES ${PKG" \o i
                         \o "_INCLUDE_DIRS})", TRUE)
             c3 == write_line(c2,
                     "list(APPEND PROJECT_LINK_DIRECTORIES ${PKG" \o i
                         \o "_LIBRARY_DIRS})", TRUE)
             c4 == write_line(c3,
                     "set(CMAKE_C_FLAGS \"${CMAKE_C_FLAGS} ${PKG" \o i
                         \o "_CFLAGS}\")", TRUE)
             c5 == write_line(c4,
                     "list(APPEND PROJECT_LIBRARIES ${PKG" \o i \o "_LIBRARIES})", TRUE)
         IN  WritePackagesLocalIndex([sh EXCEPT !.pkg_index = @ + 1,
                                                !.cmake_writer = write_newline(c5)],
                                     SubSeq(pkgs, 2, Len(pkgs)))

\* Lines 450-457 for the sorted packages pkgs
RECURSIVE WritePackages(_, _)
WritePackages(sh, pkgs) ==
    IF pkgs = <<>> THEN sh
    ELSE LET i == Str(sh.pkg_index + 1)
             c1 == write_line(sh.cmake_writer,
                     "pkg_check_modules (PKG" \o i \o " REQUIRED " \o pkgs[1] \o ")", TRUE)
             c2 == write_line(c1,
                     "list(APPEND PROJECT_INCLUDE_DIRECTORIES ${PKG" \o i
                         \o "_INCLUDE_DIRS})", TRUE)
             c3 == write_line(c2,
                     "list(APPEND PROJECT_LINK_DIRECTORIES ${PKG" \o i
                         \o "_LIBRARY_DIRS})", TRUE)
             c4 == write_line(c3,
                     "set(CMAKE_C_FLAGS \"${CMAKE_C_FLAGS} ${PKG" \o i
                         \o "_CFLAGS}\")", TRUE)
             c5 == write_line(c4,
                     "list(APPEND PROJECT_LIBRARIES ${PKG" \o i \o "_LIBRARIES})", TRUE)
         IN  WritePackages([sh EXCEPT !.pkg_index = @ + 1,
                                      !.cmake_writer = write_newline(c5)],
                           SubSeq(pkgs, 2, Len(pkgs)))

\* Lines 462-466 for the sorted headers
RECURSIVE WriteIncludes(_, _, _)
WriteIncludes(w, exclude_hdrs, c_includes) ==
    IF c_includes = <<>> THEN w
    ELSE LET line == "#include \"" \o c_includes[1] \o "\""
         IN  WriteIncludes(IF c_includes[1] \in exclude_hdrs
                           THEN write_comment(w, line)
                           ELSE write_line(w, line, TRUE),
                           exclude_hdrs, SubSeq(c_includes, 2, Len(c_includes)))

\* `with writer.scopecontext('function', attrs): <body>`, where body is the
\* outcome of the block on the writer push_scope returned
WithFunctionScope(body) ==
    LET exit == scopecontext_exit(body.writer, body.raised)
    IN  [error  |-> IF body.raised THEN body.error
                    ELSE IF exit.raised THEN "IndexError" ELSE "none",
         writer |-> exit.writer]

\* typeinformation_gir, lines 441-481; f.write is left to the caller, which
\* holds the file
typeinformation_gir(sh, excl, exclude_hdrs, namespace, fmt) ==
    LET sh1 == WritePackages(sh, Sorted(namespace.exported_packages))
        w1 == write_line(write_newline(CodeWriter), SourceIncludes, TRUE)
        w2 == write_newline(WriteIncludes(w1, exclude_hdrs, Sorted(namespace.c_includes)))
        w3 == write_line(w2, "void print_" \o namespace.name \o "_types()", TRUE)
        sh2 == Announce(sh1, namespace.name, "")
        out == WithFunctionScope(
                   write_type_names(push_scope(w3, "function"), excl, namespace.name,
                                    namespace.type_names, fmt, FALSE))
    IN  [shared |-> sh2, writer |-> out.writer, error |-> out.error]

\* Lines 491-498: the dict keyed by node.ctype, as its values in iteration
\* order (a key keeps the place of its first insertion and the value of its
\* last)
UnregisteredCtypes(ctypes) ==
    LET kept == SelectSeq(ctypes, LAMBDA n : n.gtype_name = None)
        firsts == {i \in DOMAIN kept :
                      \A j \in 1..(i - 1) : kept[j].ctype # kept[i].ctype}
        LastOf(i) == CHOOSE j \in DOMAIN kept :
                        /\ kept[j].ctype = kept[i].ctype
                        /\ \A k \in (j + 1)..Len(kept) : kept[k].ctype # kept[i].ctype
        Nth(k) == CHOOSE i \in firsts : Cardinality({j \in firsts : j < i}) = k - 1
    IN  [k \in 1..Cardinality(firsts) |-> kept[LastOf(Nth(k))]]

\* typeinformation_ctypes, lines 483-520
typeinformation_ctypes(sh, excl, exclude_hdrs, namespace, fmt) ==
    LET w1 == write_line(write_newline(CodeWriter), SourceIncludes, TRUE)
        w2 == write_newline(w1)
        w3 == write_line(w2, "void print_" \o namespace.name \o "_ctypes_types()", TRUE)
        sh1 == Announce(sh, namespace.name, "ctypes")
        w4 == push_scope(w3, "function")
        out == WithFunctionScope(
                   IF fmt = "typeinfo"
                   THEN write_type_names(w4, excl, namespace.name,
                                         UnregisteredCtypes(namespace.ctypes), fmt, TRUE)
                   ELSE [raised |-> FALSE, error |-> "none", writer |-> w4])
    IN  [shared |-> sh1, writer |-> out.writer, error |-> out.error]

\* A RegisteredType instance as _write_type_names reads it: an ast.Type and
\* ast.Registered with gtype_name, get_type and ctype set
RegisteredNode(t) ==
    [caps               |-> {"Type", "Registered"},
     gtype_name         |-> Some(t.gtype_name),
     get_type           |-> Some(t.get_type),
     ctype              |-> Some(t.ctype),
     complete_ctype     |-> None,
     target_fundamental |-> None]

\* registered_type_names.values() in iteration order: the entries of
\* REGISTERED_TYPES that hold their gtype_name in the index
RegisteredTypeNames ==
    LET chosen == {i \in DOMAIN REGISTERED_TYPES :
                      registered_type_names[Some(REGISTERED_TYPES[i].gtype_name)]
                          = REGISTERED_TYPES[i]}
        firsts == {i \in DOMAIN REGISTERED_TYPES :
                      \A j \in 1..(i - 1) :
                          REGISTERED_TYPES[j].gtype_name # REGISTERED_TYPES[i].gtype_name}
        Value(i) == REGISTERED_TYPES[
                        CHOOSE j \in chosen :
                            REGISTERED_TYPES[j].gtype_name = REGISTERED_TYPES[i].gtype_name]
        Nth(k) == CHOOSE i \in firsts : Cardinality({j \in firsts : j < i}) = k - 1
    IN  [k \in 1..Cardinality(firsts) |-> RegisteredNode(Value(Nth(k)))]

\* typeinformation_registered, lines 523-544
typeinformation_registered(sh, excl, exclude_hdrs, fmt) ==
    LET w1 == write_line(write_newline(CodeWriter), SourceIncludes, TRUE)
        w2 == write_newline(w1)
        w3 == write_line(w2, "void print_registered_types()", TRUE)
        sh1 == Announce(sh, "registered", "")
        w4 == push_scope(w3, "function")
        out == WithFunctionScope(
                   IF fmt = "typeinfo"
                   THEN write_type_names(w4, excl, "registered", RegisteredTypeNames,
                                         fmt, FALSE)
                   ELSE [raised |-> FALSE, error |-> "none", writer |-> w4])
    IN  [shared |-> sh1, writer |-> out.writer, error |-> out.error]

\* "".join of the chunks lo..hi of a buffer
RECURSIVE Join(_, _, _)
Join(data, lo, hi) ==
    IF lo > hi THEN ""
    ELSE IF lo = hi THEN data[lo]
    ELSE LET mid == (lo + hi) \div 2
         IN  Join(data, lo, mid) \o Join(data, mid + 1, hi)

\* get_source(): the text written so far
get_source(w) == Join(w.data, 1, Len(w.data))

----------------------------------------------------------------------------
(* Inputs *)

\* Most entities one call of _write_type_names iterates over
MaxNodes == 2

\* Most ast classes one entity is an instance of
MaxCaps == 2

AstClasses ==
    {"Function", "FunctionMacro", "Enum", "Bitfield", "Class", "Interface",
     "Callback", "Record", "Union", "Boxed", "Member", "Alias", "Constant",
     "Type", "Registered"}

GtypeNames == {None, Some("gint32"), Some("Widget")}

GetTypes == {None, Some("intern"), Some("G_TYPE_INT"), Some("widget_get_type")}

Ctypes == {None, Some("GtkWidget")}

CompleteCtypes == {None, Some("GtkWidget*")}

TargetFundamentals == {None, Some("gint32"), Some("Thing")}

ExcludeSets == {{}, {"Widget", ""}}

NodesOver(capsets, gns, gts, cts, ccts, tfs) ==
    [caps : capsets, gtype_name : gns, get_type : gts, ctype : cts,
     complete_ctype : ccts, target_fundamental : tfs]

\* Entities of every attribute combination, of a kind that sets the
\* fundamental fallback and of one that does not
Nodes ==
    NodesOver({{"Class", "Registered"}, {"Function"}},
              GtypeNames, GetTypes, Ctypes, CompleteCtypes, TargetFundamentals)

\* The sets of at most k ast classes
RECURSIVE CapSets(_)
CapSets(k) ==
    IF k = 0 THEN {{}}
    ELSE LET smaller == CapSets(k - 1)
         IN  smaller \cup {c \cup {a} : c \in smaller, a \in AstClasses}

\* Entities of every combination of at most MaxCaps ast classes
KindNodes ==
    NodesOver(CapSets(MaxCaps),
              {None}, {None}, Ctypes, {None}, {Some("Thing")})

\* typeinformation_gir passes namespace.type_names and unregistered = False;
\* typeinformation_ctypes passes, in typeinfo format only, the nodes that
\* have no gtype_name, and unregistered = True
Calls ==
    {[infoformat |-> f, unregistered |-> FALSE] :
        f \in {"typeinfo", "propertyinfo", "signalinfo"}}
    \cup {[infoformat |-> "typeinfo", unregistered |-> TRUE]}

\* The nodes the next iteration can meet.  unregistered_ctypes is keyed by
\* node.ctype, so one call meets no two nodes of the same ctype; the keys of
\* namespace.type_names are not read and put no condition on the nodes.
PassedNodes(ns, unreg, seen) ==
    IF unreg THEN {n \in ns : n.gtype_name = None /\ n.ctype \notin seen} ELSE ns

----------------------------------------------------------------------------
(* Merge mode: extract_typeinfo and extract_propinfo *)

\* `a, b, ... = fields` with n names on the left: ValueError unless the list
\* has exactly n elements.  Holds too when the list is longer.
UnpacksAtLeast(fields, n) == Len(fields) >= n

Unpacks(fields, n) == Len(fields) = n

\* Lines 606-607: one iteration of the loop of extract_typeinfo over the
\* dict d
extract_typeinfo_line(d, line) ==
    LET f == Split(Strip(line), ",")
    IN  IF ~Unpacks(f, 6)
        THEN [raised |-> TRUE, typeinfo |-> d]
        ELSE [raised |-> FALSE,
              typeinfo |-> DictSet(d, f[3],
                               [gtype_name |-> f[3], ctype |-> f[4],
                                get_type |-> f[5], fundamental_type |-> f[6]])]

\* ResolvePropGetType that tests the excluded names before the two lookups
ResolvePropGetTypeExcludeFirst(ti, excl, type_name, is_pointer) ==
    IF type_name \in excl THEN "exclude"
    ELSE LET type_node == DictGet(ti, type_name)
         IN  IF type_node # None THEN type_node[1].get_type
             ELSE LET ctype_node == DictGet(registered_ctype_names, type_name \o is_pointer)
                  IN  IF ctype_node # None THEN ctype_node[1].get_type
                      ELSE "?"

\* Lines 620-631: the get_type of one property row
ResolvePropGetType(ti, excl, type_name, is_pointer) ==
    LET type_node == DictGet(ti, type_name)
    IN  IF type_node # None THEN type_node[1].get_type
        ELSE LET ctype_node == DictGet(registered_ctype_names, type_name \o is_pointer)
             IN  IF ctype_node # None THEN ctype_node[1].get_type
                 ELSE IF type_name \in excl THEN "exclude" ELSE "?"

\* MergedLine that appends to the line as read
MergedLineUnstripped(line, gt) == line \o "," \o gt \o "\n"

\* Line 633: line.strip() + "," + get_type + "\n"
MergedLine(line, gt) == Strip(line) \o "," \o gt \o "\n"

\* Lines 619-633: one iteration of the loop of extract_propinfo over the
\* list l
extract_propinfo_line(l, ti, excl, line) ==
    LET f == Split(Strip(line), ",")
    IN  IF ~Unpacks(f, 8)
        THEN [raised |-> TRUE, propinfo |-> l]
        ELSE [raised |-> FALSE,
              propinfo |-> Append(l, MergedLine(line,
                                        ResolvePropGetType(ti, excl, f[4], f[5])))]

\* Most lines of the type information file
MaxTypeLines == 2

\* Most lines of the property information file
MaxPropLines == 2

\* Lines as readlines() returns them: two type rows, a short row, a blank
\* line
TypeLines ==
    {"NS,class,Widget,GtkWidget,widget_get_type(),GObject\n",
     "NS,record,gchar,gchar,my_char_get_type(),gchar\n",
     "NS,class,Widget\n",
     "\n"}

\* Three property rows and a row of an already merged file
PropLines ==
    {"NS,class,Button,Widget,*,rw,parent,GObject\n",
     "NS,class,Button,gchar,*,rw,label,gchar\n",
     "NS,class,Button,gint,,rw,width,gint\n",
     "NS,class,Button,Widget,*,rw,parent,GObject,?\n"}

MergeExcludeSets == {{}, {"Widget", "gint"}}

SeqsUpTo(S, n) == UNION {[1..k -> S] : k \in 0..n}

----------------------------------------------------------------------------
(* The state machine *)

\* The emission branch of scanner_main is not running
PipelineIdle ==
    /\ options = [typeinfo |-> FALSE, propertyinfo |-> FALSE, signalinfo |-> FALSE]
    /\ filenames = <<>>
    /\ exclude_headers = {}
    /\ file_i = 0
    /\ stage = "idle"
    /\ cmake_writer = None
    /\ header_writer = None
    /\ main_writer = None
    /\ pkg_index = 0
    /\ outputs = EmptyDict
    /\ processed = <<>>
    /\ flushed = <<>>

\* No second writer exists
TwinIdle ==
    /\ minified = None
    /\ call = None
    /\ ncalls = 0

\* No caller has used the scope interface
ScopeIdle ==
    /\ ctx_stack = <<>>
    /\ pending = <<>>
    /\ last = None
    /\ underflowed = FALSE
    /\ ops = 0

\* The module is loaded: both indices are built, nothing was looked up
RegistryLoaded ==
    /\ names_index = registered_type_names
    /\ ctypes_index = registered_ctype_names
    /\ typeval_i = Len(REGISTERED_TYPES)
    /\ query = 0
    /\ found = None

\* Merge mode is not running
MergeIdle ==
    /\ typeinfo_file = <<>>
    /\ propinfo_file = <<>>
    /\ typeinfo = EmptyDict
    /\ propinfo = <<>>
    /\ merged_file = [exists |-> FALSE, lines |-> <<>>]
    /\ lineno = 0
    /\ pc = "emit"

Init ==
    /\ RegistryLoaded
    /\ MergeIdle
    /\ ScopeIdle
    /\ PipelineIdle
    /\ TwinIdle
    /\ writer = push_scope(CodeWriter, "function")
    /\ \E c \in Calls : infoformat = c.infoformat /\ unregistered = c.unregistered
    /\ exclude_gtypes \in ExcludeSets
    /\ namespace_name \in {"MyNS"}
    /\ node = Unbound
    /\ node_type = Unbound
    /\ fundamental_gtype = "G_TYPE_INVALID"
    /\ gtype_name = Unbound
    /\ get_type = Unbound
    /\ ctype = Unbound
    /\ error = "none"
    /\ count = 0
    /\ keys = {}
    /\ mark = 0

\* One iteration of `for key, node in type_names.items()`
WriteTypeName(n) ==
    /\ error = "none"
    /\ count < MaxNodes
    /\ LET nt == NodeType(n)
           fg == FundamentalGtype(n, fundamental_gtype)
           gn == ResolveGtypeName(n, unregistered)
           gt == ResolveGetType(n, gn, fg, unregistered)
           ct == ResolveCtype(n, gn, ctype)
           w1 == IF ct.warn THEN write_line(writer, WarningLine(gn), TRUE) ELSE writer
           row == EmitRow(w1, infoformat, exclude_gtypes, namespace_name,
                          nt, gn, ct.ctype, gt.value)
       IN  /\ node' = n
           /\ node_type' = nt
           /\ fundamental_gtype' = fg
           /\ gtype_name' = gn
           /\ get_type' = gt.value
           /\ count' = count + 1
           /\ keys' = IF unregistered THEN keys \cup {n.ctype} ELSE keys
           /\ mark' = Len(writer.data)
           /\ IF gt.raised
              THEN /\ error' = "TypeError"
                   /\ UNCHANGED <<writer, ctype>>
              ELSE /\ ctype' = ct.ctype
                   /\ writer' = row.writer
                   /\ error' = IF row.raised THEN "UnboundLocalError" ELSE "none"
    /\ UNCHANGED <<infoformat, unregistered, exclude_gtypes, namespace_name>>
    /\ UNCHANGED <<mergeVars, registryVars, scopeVars, pipeVars, twinVars>>

Next == \E n \in PassedNodes(Nodes, unregistered, keys) : WriteTypeName(n)

Spec == Init /\ [][Next]_vars

NextKinds == \E n \in PassedNodes(KindNodes, unregistered, keys) : WriteTypeName(n)

SpecKinds == Init /\ [][NextKinds]_vars

----------------------------------------------------------------------------
(* scanner_main, merge mode (lines 714-726) *)

\* _write_type_names is not running
EmitIdle ==
    /\ writer = CodeWriter
    /\ infoformat = ""
    /\ unregistered = FALSE
    /\ namespace_name = ""
    /\ node = Unbound
    /\ node_type = Unbound
    /\ fundamental_gtype = Unbound
    /\ gtype_name = Unbound
    /\ get_type = Unbound
    /\ ctype = Unbound
    /\ count = 0
    /\ keys = {}
    /\ mark = 0

InitMerge ==
    /\ RegistryLoaded
    /\ EmitIdle
    /\ ScopeIdle
    /\ PipelineIdle
    /\ TwinIdle
    /\ exclude_gtypes \in MergeExcludeSets
    /\ typeinfo_file \in SeqsUpTo(TypeLines, MaxTypeLines)
    /\ propinfo_file \in SeqsUpTo(PropLines, MaxPropLines)
    /\ typeinfo = EmptyDict
    /\ propinfo = <<>>
    /\ merged_file = [exists |-> FALSE, lines |-> <<>>]
    /\ lineno = 0
    /\ pc = "extract_typeinfo"
    /\ error = "none"

MergeFrame ==
    UNCHANGED <<writer, exclude_gtypes, emitVars, registryVars, scopeVars,
                pipeVars, twinVars, typeinfo_file, propinfo_file>>

\* Lines 605-607: one iteration of `for line in lines`
ExtractTypeinfoLine ==
    /\ pc = "extract_typeinfo"
    /\ lineno < Len(typeinfo_file)
    /\ LET r == extract_typeinfo_line(typeinfo, typeinfo_file[lineno + 1])
       IN  /\ typeinfo' = r.typeinfo
           /\ lineno' = lineno + 1
           /\ error' = IF r.raised THEN "ValueError" ELSE "none"
           /\ pc' = IF r.raised THEN "aborted" ELSE pc
    /\ UNCHANGED <<propinfo, merged_file>>
    /\ MergeFrame

\* Lines 609 and 717, 612-617: extract_typeinfo returns, extract_propinfo
\* reads its file
ExtractTypeinfoReturn ==
    /\ pc = "extract_typeinfo"
    /\ lineno = Len(typeinfo_file)
    /\ pc' = "extract_propinfo"
    /\ lineno' = 0
    /\ UNCHANGED <<typeinfo, propinfo, merged_file, error>>
    /\ MergeFrame

\* Lines 618-633: one iteration of `for line in lines`
ExtractPropinfoLine ==
    /\ pc = "extract_propinfo"
    /\ lineno < Len(propinfo_file)
    /\ LET r == extract_propinfo_line(propinfo, typeinfo, exclude_gtypes,
                                      propinfo_file[lineno + 1])
       IN  /\ propinfo' = r.propinfo
           /\ lineno' = lineno + 1
           /\ error' = IF r.raised THEN "ValueError" ELSE "none"
           /\ pc' = IF r.raised THEN "aborted" ELSE pc
    /\ UNCHANGED <<typeinfo, merged_file>>
    /\ MergeFrame

\* Lines 635 and 719-723: extract_propinfo returns and the merged file is
\* opened for writing
OpenMergedFile ==
    /\ pc = "extract_propinfo"
    /\ lineno = Len(propinfo_file)
    /\ merged_file' = [exists |-> TRUE, lines |-> <<>>]
    /\ pc' = "write"
    /\ lineno' = 0
    /\ UNCHANGED <<typeinfo, propinfo, error>>
    /\ MergeFrame

\* Lines 724-725: one iteration of `for line in propinfo`
WriteMergedLine ==
    /\ pc = "write"
    /\ lineno < Len(propinfo)
    /\ merged_file' = [merged_file EXCEPT !.lines = Append(@, propinfo[lineno + 1])]
    /\ lineno' = lineno + 1
    /\ UNCHANGED <<typeinfo, propinfo, error, pc>>
    /\ MergeFrame

\* Line 726 and the end of the with block
CloseMergedFile ==
    /\ pc = "write"
    /\ lineno = Len(propinfo)
    /\ pc' = "done"
    /\ UNCHANGED <<typeinfo, propinfo, merged_file, lineno, error>>
    /\ MergeFrame

NextMerge ==
    \/ ExtractTypeinfoLine
    \/ ExtractTypeinfoReturn
    \/ ExtractPropinfoLine
    \/ OpenMergedFile
    \/ WriteMergedLine
    \/ CloseMergedFile

SpecMerge == InitMerge /\ [][NextMerge]_vars

----------------------------------------------------------------------------
(* Module load: the two indices over REGISTERED_TYPES (lines 293-297) *)

\* RegisterGtypeName that files the entry under its ctype
RegisterGtypeNameUnderCtype(d, typeval) == DictSet(d, Some(typeval.ctype), typeval)

\* Line 296
RegisterGtypeName(d, typeval) == DictSet(d, Some(typeval.gtype_name), typeval)

\* RegisterCtype that leaves a key that is already set as it is
RegisterCtypeFirstWins(d, typeval) ==
    IF typeval.ctype \in DOMAIN d THEN d ELSE DictSet(d, typeval.ctype, typeval)

\* Line 297
RegisterCtype(d, typeval) == DictSet(d, typeval.ctype, typeval)

InitRegistry ==
    /\ EmitIdle
    /\ MergeIdle
    /\ ScopeIdle
    /\ PipelineIdle
    /\ TwinIdle
    /\ exclude_gtypes = {}
    /\ error = "none"
    /\ names_index = EmptyDict
    /\ ctypes_index = EmptyDict
    /\ typeval_i = 0
    /\ query = 0
    /\ found = None

RegistryFrame ==
    UNCHANGED <<writer, exclude_gtypes, error, emitVars, mergeVars, scopeVars,
                pipeVars, twinVars>>

\* Lines 295-297: one iteration of `for typeval in REGISTERED_TYPES`
RegisterTypeval ==
    /\ typeval_i < Len(REGISTERED_TYPES)
    /\ LET typeval == REGISTERED_TYPES[typeval_i + 1]
       IN  /\ names_index' = RegisterGtypeName(names_index, typeval)
           /\ ctypes_index' = RegisterCtype(ctypes_index, typeval)
    /\ typeval_i' = typeval_i + 1
    /\ UNCHANGED <<query, found>>
    /\ RegistryFrame

\* Line 405: registered_type_names.get(gtype_name), with the gtype_name of
\* entry e
LookupByGtypeName(e) ==
    /\ typeval_i = Len(REGISTERED_TYPES)
    /\ query' = e
    /\ found' = DictGet(names_index, Some(REGISTERED_TYPES[e].gtype_name))
    /\ UNCHANGED <<names_index, ctypes_index, typeval_i>>
    /\ RegistryFrame

\* Line 624: registered_ctype_names.get(ctype), with the ctype of entry e
LookupByCtype(e) ==
    /\ typeval_i = Len(REGISTERED_TYPES)
    /\ query' = -e
    /\ found' = DictGet(ctypes_index, REGISTERED_TYPES[e].ctype)
    /\ UNCHANGED <<names_index, ctypes_index, typeval_i>>
    /\ RegistryFrame

NextRegistry ==
    \/ RegisterTypeval
    \/ \E e \in DOMAIN REGISTERED_TYPES : LookupByGtypeName(e)
    \/ \E e \in DOMAIN REGISTERED_TYPES : LookupByCtype(e)

SpecRegistry == InitRegistry /\ [][NextRegistry]_vars

----------------------------------------------------------------------------
(* Callers of CodeWriter.push_scope, pop_scope and scopecontext *)

\* Most CodeWriter calls of one run
MaxOps == 5

ScopeNames == {"function", "block"}

InitScopes ==
    /\ RegistryLoaded
    /\ EmitIdle
    /\ MergeIdle
    /\ ScopeIdle
    /\ PipelineIdle
    /\ TwinIdle
    /\ exclude_gtypes = {}
    /\ error = "none"

ScopesFrame ==
    UNCHANGED <<exclude_gtypes, emitVars, mergeVars, registryVars, pipeVars,
                twinVars>>

\* The open with blocks, their bodies now known to have called push_scope or
\* pop_scope themselves
Direct(frames) == [i \in DOMAIN frames |-> [frames[i] EXCEPT !.direct = TRUE]]

\* The record of a push_scope call on the writer w
Pushed(w, scope_name, how) ==
    [op |-> "push", ctx |-> how, name |-> Some(scope_name), ret |-> None,
     raised |-> FALSE, indent_before |-> w.indent, len_before |-> Len(w.data),
     empty_before |-> w.scope_stack = <<>>, match |-> None, frame |-> None,
     failed |-> FALSE]

\* The record of a pop_scope call on the writer w with the outcome r, made
\* on leaving the with block fr (None for a direct call)
Popped(w, r, how, fr, body_failed) ==
    [op |-> "pop", ctx |-> how, name |-> None, ret |-> r.scope_name,
     raised |-> r.raised, indent_before |-> w.indent, len_before |-> Len(w.data),
     empty_before |-> w.scope_stack = <<>>,
     match |-> IF pending = <<>> THEN None ELSE pending[Len(pending)],
     frame |-> fr, failed |-> body_failed]

\* The record of a write_line call on the writer w
Wrote(w) ==
    [op |-> "write", ctx |-> "direct", name |-> None, ret |-> None,
     raised |-> FALSE, indent_before |-> w.indent, len_before |-> Len(w.data),
     empty_before |-> w.scope_stack = <<>>, match |-> None, frame |-> None,
     failed |-> FALSE]

\* The unmatched pushes after a pop_scope call with the outcome r
Matched(r) ==
    IF r.raised \/ pending = <<>> THEN pending
    ELSE SubSeq(pending, 1, Len(pending) - 1)

\* writer.push_scope(name), called directly
PushScope(scope_name) ==
    /\ error = "none"
    /\ ops < MaxOps
    /\ writer' = push_scope(writer, scope_name)
    /\ pending' = Append(pending, [name |-> scope_name, at |-> Len(writer.data) + 1])
    /\ last' = Pushed(writer, scope_name, "direct")
    /\ ctx_stack' = Direct(ctx_stack)
    /\ ops' = ops + 1
    /\ UNCHANGED <<error, underflowed>>
    /\ ScopesFrame

\* writer.pop_scope(), called directly
PopScope ==
    /\ error = "none"
    /\ ops < MaxOps
    /\ LET r == pop_scope(writer)
       IN  /\ writer' = r.writer
           /\ error' = IF r.raised THEN "IndexError" ELSE "none"
           /\ underflowed' = (underflowed \/ r.raised)
           /\ pending' = Matched(r)
           /\ last' = Popped(writer, r, "direct", None, FALSE)
    /\ ctx_stack' = Direct(ctx_stack)
    /\ ops' = ops + 1
    /\ ScopesFrame

\* `with writer.scopecontext(name):` is entered (line 161)
EnterContext(scope_name) ==
    /\ error = "none"
    /\ ops < MaxOps
    /\ writer' = push_scope(writer, scope_name)
    /\ pending' = Append(pending, [name |-> scope_name, at |-> Len(writer.data) + 1])
    /\ last' = Pushed(writer, scope_name, "enter")
    /\ ctx_stack' = Append(ctx_stack,
                           [name |-> scope_name, scope_stack |-> writer.scope_stack,
                            indent |-> writer.indent, direct |-> FALSE])
    /\ ops' = ops + 1
    /\ UNCHANGED <<error, underflowed>>
    /\ ScopesFrame

\* A statement written by the caller, as _write_type_names does in the body
\* of the with block
WriteStatement ==
    /\ error = "none"
    /\ ops < MaxOps
    /\ writer' = write_line(writer, "statement;", TRUE)
    /\ last' = Wrote(writer)
    /\ ops' = ops + 1
    /\ UNCHANGED <<error, ctx_stack, pending, underflowed>>
    /\ ScopesFrame

\* The caller's code raises, as _write_type_names does at lines 409 and 436
BodyRaises ==
    /\ error = "none"
    /\ error' = "BodyError"
    /\ UNCHANGED <<writer, scopeVars>>
    /\ ScopesFrame

\* The innermost with block is left: by the end of its body, or by the
\* exception that is propagating (lines 164-165)
LeaveContext ==
    /\ ctx_stack # <<>>
    /\ error # "none" \/ ops < MaxOps
    /\ LET fr == ctx_stack[Len(ctx_stack)]
           r  == scopecontext_exit(writer, error # "none")
       IN  /\ writer' = r.writer
           /\ error' = IF r.raised THEN "IndexError" ELSE error
           /\ underflowed' = (underflowed \/ r.raised)
           /\ pending' = Matched(r)
           /\ last' = Popped(writer, r, "exit", fr, error # "none")
    /\ ctx_stack' = SubSeq(ctx_stack, 1, Len(ctx_stack) - 1)
    /\ ops' = ops + 1
    /\ ScopesFrame

\* The exception is caught by the caller
CatchError ==
    /\ error # "none"
    /\ error' = "none"
    /\ UNCHANGED <<writer, scopeVars>>
    /\ ScopesFrame

NextScopes ==
    \/ \E scope_name \in ScopeNames : PushScope(scope_name)
    \/ PopScope
    \/ \E scope_name \in ScopeNames : EnterContext(scope_name)
    \/ WriteStatement
    \/ BodyRaises
    \/ LeaveContext
    \/ CatchError

SpecScopes == InitScopes /\ [][NextScopes]_vars

----------------------------------------------------------------------------
(* scanner_main, emission branch (lines 727-1301) *)

\* Most input files of one run
MaxFiles == 2

\* The option combinations that select the emission branch (line 727)
OptionSets ==
    {o \in [typeinfo : BOOLEAN, propertyinfo : BOOLEAN, signalinfo : BOOLEAN] :
        o.typeinfo \/ o.propertyinfo \/ o.signalinfo}

\* Lines 728-735
InfoFormat(o) ==
    IF o.propertyinfo THEN "propertyinfo"
    ELSE IF o.signalinfo THEN "signalinfo"
    ELSE IF o.typeinfo THEN "typeinfo"
    ELSE ""

PipelineNode(caps_, gtype_name_, get_type_, ctype_) ==
    [caps |-> caps_, gtype_name |-> gtype_name_, get_type |-> get_type_,
     ctype |-> ctype_, complete_ctype |-> None, target_fundamental |-> None]

\* Parsed namespaces: one without entities, one with entities of several
\* kinds and two storage types that share a ctype, one whose only entity has
\* the intern marker and no type name
Namespaces ==
    {[name |-> "Empty", exported_packages |-> {}, c_includes |-> {},
      type_names |-> <<>>, ctypes |-> <<>>],
     [name |-> "Gtk", exported_packages |-> {"gtk+-3.0", "gdk-3.0"},
      c_includes |-> {"gtk/gtkx.h", "gtk/gtk.h"},
      type_names |->
          <<PipelineNode({"Class", "Registered"}, Some("Widget"),
                         Some("widget_get_type"), Some("GtkWidget")),
            PipelineNode({"Enum", "Registered"}, Some("Align"),
                         Some("align_get_type"), Some("GtkAlign"))>>,
      ctypes |->
          <<PipelineNode({"Record"}, None, None, Some("GtkBorder")),
            PipelineNode({"Class", "Registered"}, Some("Widget"),
                         Some("widget_get_type"), Some("GtkWidget")),
            PipelineNode({"Union"}, None, None, Some("GtkBorder")),
            PipelineNode({"Callback"}, None, None, Some("GtkCallback"))>>],
     [name |-> "Bad", exported_packages |-> {"bad"}, c_includes |-> {"bad.h"},
      type_names |->
          <<PipelineNode({"Function"}, None, Some("intern"), None)>>,
      ctypes |-> <<>>]}

\* An input file: the stem of its name and the namespace GIRParser reads
\* from it
InputFiles == {[stem |-> ns.name \o "-1.0", namespace |-> ns] : ns \in Namespaces}

ExcludeHeaderSets == {{}, {"gtk/gtkx.h"}}

PipelineExcludeSets == {{}, {"Widget", "gint"}}

\* Lines 740-747
CmakePrelude ==
    "cmake_minimum_required(VERSION 3.10)\nproject (girtypes)\n\n"
        \o "find_package (PkgConfig REQUIRED)\n\n"
        \o "set(PROJECT_SOURCES ${PROJECT_SOURCES} girtypes.c)\n\n"

\* Lines 755-1239: the fixed helper functions of the driver, cut down to
\* their first and last line
MainPrelude == "#include \"girtypes.h\"\n\nvoid print_all_types() {"

\* Lines 1244-1251
HeaderPrelude ==
    "#include <stdio.h>\n#include <glib-2.0/glib-object.h>\n#include <gtk/gtk.h>\n\n"
        \o "const char * g_type_fundamental_tostring(GType gtype);\n"
        \o "void print_object_properties(FILE *fp, GType object_type, char* namespace_name, char* node_type, char* gtype_name);\n"
        \o "void print_object_signals(FILE *fp, GType object_type, char* namespace_name, char* node_type, char* gtype_name);\n"
        \o "void output_object_signal(FILE *fp, GType object_type, char* namespace_name, char* node_type, char* gtype_name, const gchar *object_name, guint signal_id);"

\* Lines 1291-1297
MainFooter ==
    "}\n\nint main(int argc, char *argv[]) {\n    gtk_init(&argc, &argv);\n"
        \o "    print_all_types();\n    exit(0);\n}"

\* The header buffer when the loop over the input files starts (lines 749,
\* 1241-1251)
HeaderStart ==
    write_line(
        write_newline(
            write_line(write_line(CodeWriter, "#ifndef _girtypes_h", TRUE),
                       "#define _girtypes_h", TRUE)),
        HeaderPrelude, TRUE)

\* The driver buffer when the loop starts (lines 752-1239)
MainStart == write_line(CodeWriter, MainPrelude, TRUE)

\* The build-file buffer when the loop starts (lines 738-747)
CmakeStart == write_line(CodeWriterHash, CmakePrelude, TRUE)

\* The state when the three shared files are open and the loop at line 1256
\* is about to start
InitPipeline ==
    /\ RegistryLoaded
    /\ MergeIdle
    /\ ScopeIdle
    /\ TwinIdle
    /\ options \in OptionSets
    /\ infoformat = InfoFormat(options)
    /\ filenames \in SeqsUpTo(InputFiles, MaxFiles)
    /\ exclude_gtypes \in PipelineExcludeSets
    /\ exclude_headers \in ExcludeHeaderSets
    /\ file_i = 0
    /\ stage = "gir"
    /\ cmake_writer = CmakeStart
    /\ header_writer = HeaderStart
    /\ main_writer = MainStart
    /\ pkg_index = 0
    /\ outputs = DictSet(DictSet(DictSet(EmptyDict, "CMakeLists.txt", ""),
                                 "girtypes.c", ""), "girtypes.h", "")
    /\ processed = <<>>
    /\ flushed = <<>>
    /\ writer = CodeWriter
    /\ unregistered = FALSE
    /\ namespace_name = ""
    /\ node = Unbound
    /\ node_type = Unbound
    /\ fundamental_gtype = Unbound
    /\ gtype_name = Unbound
    /\ get_type = Unbound
    /\ ctype = Unbound
    /\ count = 0
    /\ keys = {}
    /\ mark = 0
    /\ error = "none"

PipelineFrame ==
    UNCHANGED <<exclude_gtypes, infoformat, node, node_type, fundamental_gtype,
                gtype_name, get_type, ctype, count, keys, mark, mergeVars,
                registryVars, scopeVars, twinVars, options, filenames,
                exclude_headers>>

\* Lines 1262, 1271, 1278
SourceLine(filename) ==
    "set(PROJECT_SOURCES ${PROJECT_SOURCES} ${CMAKE_CURRENT_SOURCE_DIR}/"
        \o filename \o ")"

\* The buffers and the package counter the three functions share, after the
\* caller has listed filename in the build file
Shared(filename) ==
    [cmake_writer  |-> write_line(cmake_writer, SourceLine(filename), TRUE),
     header_writer |-> header_writer,
     main_writer   |-> main_writer,
     pkg_index     |-> pkg_index]

\* `with open(outputFilename, 'wb') as o: typeinformation_*(..); o.flush()`:
\* the file is created; it receives the source when the call returns and
\* stays empty when the call raises, which ends the run
Ran(r, filename, ns, unreg, entities, next_stage) ==
    /\ cmake_writer' = r.shared.cmake_writer
    /\ header_writer' = r.shared.header_writer
    /\ main_writer' = r.shared.main_writer
    /\ pkg_index' = r.shared.pkg_index
    /\ writer' = r.writer
    /\ namespace_name' = ns
    /\ unregistered' = unreg
    /\ error' = r.error
    /\ outputs' = DictSet(outputs, filename,
                          IF r.error = "none" THEN get_source(r.writer) ELSE "")
    /\ processed' = Append(processed,
                           [namespace |-> ns, unregistered |-> unreg,
                            entities |-> entities])
    /\ flushed' = IF r.error = "none"
                  THEN Append(flushed, [buffer |-> filename,
                                        pass |-> Len(processed) + 1,
                                        text |-> get_source(r.writer)])
                  ELSE flushed
    /\ stage' = IF r.error = "none" THEN next_stage ELSE "aborted"

\* Lines 1257-1265: the first half of one iteration of `for f in filenames`
TypeinformationGir ==
    /\ stage = "gir"
    /\ file_i < Len(filenames)
    /\ LET f == filenames[file_i + 1]
           filename == f.stem \o ".c"
           r == typeinformation_gir(Shared(filename), exclude_gtypes,
                                    exclude_headers, f.namespace, infoformat)
       IN  Ran(r, filename, f.namespace.name, FALSE, Len(f.namespace.type_names),
               IF options.typeinfo THEN "ctypes" ELSE "gir")
    /\ file_i' = IF options.typeinfo THEN file_i ELSE file_i + 1
    /\ PipelineFrame

\* Lines 1266-1274: the second half, run when options.typeinfo is set
TypeinformationCtypes ==
    /\ stage = "ctypes"
    /\ LET f == filenames[file_i + 1]
           filename == f.stem \o "_ctypes.c"
           r == typeinformation_ctypes(Shared(filename), exclude_gtypes,
                                       exclude_headers, f.namespace, infoformat)
       IN  Ran(r, filename, f.namespace.name, TRUE,
               IF infoformat = "typeinfo"
               THEN Len(UnregisteredCtypes(f.namespace.ctypes)) ELSE 0,
               "gir")
    /\ file_i' = file_i + 1
    /\ PipelineFrame

\* Lines 1276-1281 after at least one input file: the loop variable f is
\* bound and the call is made
TypeinformationRegistered ==
    /\ stage = "gir"
    /\ file_i = Len(filenames)
    /\ filenames # <<>>
    /\ LET r == typeinformation_registered(Shared("registered.c"), exclude_gtypes,
                                           exclude_headers, infoformat)
       IN  Ran(r, "registered.c", "registered", FALSE,
               IF infoformat = "typeinfo" THEN Len(RegisteredTypeNames) ELSE 0,
               "footer")
    /\ UNCHANGED file_i
    /\ PipelineFrame

\* Lines 1276-1280 without input files: the argument f of the call at line
\* 1280 was never bound, so the call is not made; registered.c is open and
\* the build file lists it
RegisteredWithoutFiles ==
    /\ stage = "gir"
    /\ filenames = <<>>
    /\ cmake_writer' = write_line(cmake_writer, SourceLine("registered.c"), TRUE)
    /\ outputs' = DictSet(outputs, "registered.c", "")
    /\ error' = "UnboundLocalError"
    /\ stage' = "aborted"
    /\ UNCHANGED <<writer, namespace_name, unregistered, header_writer, main_writer,
                   pkg_index, processed, flushed, file_i>>
    /\ PipelineFrame

\* Lines 1282-1300 with the header written to its file ahead of its footer
FootersHeaderFlushedEarly(sh) ==
    LET c == write_line(write_line(write_line(write_line(write_line(sh.cmake_writer,
               "string(REPLACE \";\" \" \" CMAKE_C_FLAGS \"${CMAKE_C_FLAGS}\")", TRUE),
               "add_executable (girtypes ${PROJECT_SOURCES})", TRUE),
               "target_include_directories (girtypes PUBLIC ${PROJECT_INCLUDE_DIRECTORIES})", TRUE),
               "target_link_directories (girtypes PUBLIC ${PROJECT_LINK_DIRECTORIES})", TRUE),
               "target_link_libraries (girtypes ${PROJECT_LIBRARIES})", TRUE)
        h == write_line(write_newline(sh.header_writer), "#endif /* _girtypes_h */", TRUE)
        m == write_line(sh.main_writer, MainFooter, TRUE)
    IN  [cmake_writer |-> c, header_writer |-> h, main_writer |-> m,
         written |-> <<[buffer |-> "girtypes.h", pass |-> 0,
                        text |-> get_source(sh.header_writer)],
                       [buffer |-> "girtypes.c", pass |-> 0, text |-> get_source(m)],
                       [buffer |-> "CMakeLists.txt", pass |-> 0, text |-> get_source(c)]>>]

\* Lines 1282-1300: the footers of the three shared buffers, and the three
\* writes h.write, m.write, c.write in the order they are made
Footers(sh) ==
    LET c == write_line(write_line(write_line(write_line(write_line(sh.cmake_writer,
               "string(REPLACE \";\" \" \" CMAKE_C_FLAGS \"${CMAKE_C_FLAGS}\")", TRUE),
               "add_executable (girtypes ${PROJECT_SOURCES})", TRUE),
               "target_include_directories (girtypes PUBLIC ${PROJECT_INCLUDE_DIRECTORIES})", TRUE),
               "target_link_directories (girtypes PUBLIC ${PROJECT_LINK_DIRECTORIES})", TRUE),
               "target_link_libraries (girtypes ${PROJECT_LIBRARIES})", TRUE)
        h == write_line(write_newline(sh.header_writer), "#endif /* _girtypes_h */", TRUE)
        m == write_line(sh.main_writer, MainFooter, TRUE)
    IN  [cmake_writer |-> c, header_writer |-> h, main_writer |-> m,
         written |-> <<[buffer |-> "girtypes.h", pass |-> 0, text |-> get_source(h)],
                       [buffer |-> "girtypes.c", pass |-> 0, text |-> get_source(m)],
                       [buffer |-> "CMakeLists.txt", pass |-> 0, text |-> get_source(c)]>>]

\* Lines 1282-1301: the footers, and the three shared buffers written to
\* their files
WriteFooters ==
    /\ stage = "footer"
    /\ LET r == Footers([cmake_writer |-> cmake_writer,
                         header_writer |-> header_writer,
                         main_writer |-> main_writer])
       IN  /\ cmake_writer' = r.cmake_writer
           /\ header_writer' = r.header_writer
           /\ main_writer' = r.main_writer
           /\ outputs' = DictSet(DictSet(DictSet(outputs,
                                                 "girtypes.h", r.written[1].text),
                                         "girtypes.c", r.written[2].text),
                                 "CMakeLists.txt", r.written[3].text)
           /\ flushed' = flushed \o r.written
    /\ stage' = "done"
    /\ UNCHANGED <<writer, namespace_name, unregistered, error, pkg_index, processed,
                   file_i>>
    /\ PipelineFrame

NextPipeline ==
    \/ TypeinformationGir
    \/ TypeinformationCtypes
    \/ TypeinformationRegistered
    \/ RegisteredWithoutFiles
    \/ WriteFooters

SpecPipeline == InitPipeline /\ [][NextPipeline]_vars

----------------------------------------------------------------------------
(* Callers of the writing interface of CodeWriter, in both whitespace modes *)

\* Most calls made on one writer
MaxCalls == 3

\* The four comment styles and one begin_comment that is none of them
CommentStyles == {"/* ", "(* ", "// ", "# ", "-- "}

\* Texts of no line, of one line with and without its line ending, and of
\* several lines
CommentTexts == {"", "abc", "abc\n", "a\nb", "\n\nab\n"}

SourceLines == {"x;", ""}

\* Two writers of one comment style; disable_whitespace() was called on the
\* second
InitTwin ==
    /\ RegistryLoaded
    /\ MergeIdle
    /\ ScopeIdle
    /\ PipelineIdle
    /\ infoformat = ""
    /\ unregistered = FALSE
    /\ namespace_name = ""
    /\ node = Unbound
    /\ node_type = Unbound
    /\ fundamental_gtype = Unbound
    /\ gtype_name = Unbound
    /\ get_type = Unbound
    /\ ctype = Unbound
    /\ count = 0
    /\ keys = {}
    /\ mark = 0
    /\ \E style \in CommentStyles :
          /\ writer = CodeWriterFor(style)
          /\ minified = disable_whitespace(CodeWriterFor(style))
    /\ call = None
    /\ ncalls = 0
    /\ exclude_gtypes = {}
    /\ error = "none"

TwinFrame ==
    UNCHANGED <<exclude_gtypes, error, emitVars, mergeVars, registryVars, scopeVars,
                pipeVars>>

\* The record of a call: its name, its text argument, and the two writers
\* as they were before it
Called(name, text, raised) ==
    Some([name |-> name, text |-> text, raised |-> raised,
          writer |-> writer, minified |-> minified])

CallWriteLine(line) ==
    /\ ncalls < MaxCalls
    /\ writer' = write_line(writer, line, TRUE)
    /\ minified' = write_line(minified, line, TRUE)
    /\ call' = Called("write_line", line, FALSE)
    /\ ncalls' = ncalls + 1
    /\ TwinFrame

CallWriteSource(line, indent) ==
    /\ ncalls < MaxCalls
    /\ writer' = write_source(writer, line, indent)
    /\ minified' = write_source(minified, line, indent)
    /\ call' = Called(IF indent THEN "write_source" ELSE "write_source_flat", line, FALSE)
    /\ ncalls' = ncalls + 1
    /\ TwinFrame

CallWriteComment(text) ==
    /\ ncalls < MaxCalls
    /\ writer' = write_comment(writer, text)
    /\ minified' = write_comment(minified, text)
    /\ call' = Called("write_comment", text, FALSE)
    /\ ncalls' = ncalls + 1
    /\ TwinFrame

CallPushScope(scope_name) ==
    /\ ncalls < MaxCalls
    /\ writer' = push_scope(writer, scope_name)
    /\ minified' = push_scope(minified, scope_name)
    /\ call' = Called("push_scope", scope_name, FALSE)
    /\ ncalls' = ncalls + 1
    /\ TwinFrame

\* pop_scope on both writers; the caller goes on after an IndexError
CallPopScope ==
    /\ ncalls < MaxCalls
    /\ writer' = pop_scope(writer).writer
    /\ minified' = pop_scope(minified).writer
    /\ call' = Called("pop_scope", "", pop_scope(writer).raised)
    /\ ncalls' = ncalls + 1
    /\ TwinFrame

NextTwin ==
    \/ \E line \in SourceLines : CallWriteLine(line)
    \/ \E indent \in BOOLEAN : CallWriteSource("x;", indent)
    \/ \E text \in CommentTexts : CallWriteComment(text)
    \/ CallPushScope("block")
    \/ CallPopScope

SpecTwin == InitTwin /\ [][NextTwin]_vars

----------------------------------------------------------------------------
(* Properties *)

\* The chunks written by the last iteration
Written == SubSeq(writer.data, mark + 1, Len(writer.data))

Indentation == Repeat(writer.indent_char, writer.indent)

\* The statement of the current entity with identity expression e is among
\* the chunks the iteration wrote
RowWrittenWith(e) ==
    \E i \in DOMAIN Written :
        Written[i] =
            IF infoformat = "signalinfo"
            THEN Indentation \o SignalRow(namespace_name, node_type, gtype_name, e)
            ELSE IF infoformat = "propertyinfo"
            THEN Indentation \o PropertyRow(namespace_name, node_type, gtype_name, e)
            ELSE TypeRowArgs(namespace_name, node_type, gtype_name, ctype, e)

\* C1: an entity whose get_type is 'intern' and whose resolved type name is
\* a key of registered_type_names gets that registry entry's get_type as
\* its identity expression, unmodified, and its row is emitted with it.
C1_InternResolvesToRegistry ==
    (count > 0 /\ node.get_type = Some("intern")
        /\ gtype_name \in DOMAIN registered_type_names)
    => /\ error = "none"
       /\ get_type = registered_type_names[gtype_name].get_type
       /\ RowWrittenWith(registered_type_names[gtype_name].get_type)

C1_Witness ==
    /\ count > 0
    /\ node.get_type = Some("intern")
    /\ node.gtype_name = None
    /\ gtype_name = Some("gint32")
    /\ get_type = "G_TYPE_INT"
    /\ infoformat = "typeinfo"

\* C2: an entity whose get_type is 'intern' and whose resolved type name is
\* not in the registry does not abort the classification: its identity
\* expression is "<typeName> not found" and its row is emitted.
C2_InternNotFoundMarker ==
    (count > 0 /\ node.get_type = Some("intern")
        /\ gtype_name \notin DOMAIN registered_type_names)
    => /\ error = "none"
       /\ get_type = PyStr(gtype_name) \o " not found"
       /\ RowWrittenWith(PyStr(gtype_name) \o " not found")

\* C3: an explicit get_type other than 'intern' gets '()' appended exactly
\* when it does not start with 'G_TYPE_'.
C3_CallSuffix ==
    (count > 0 /\ node.get_type # None /\ node.get_type # Some("intern"))
    => LET g == node.get_type[1]
       IN  get_type = IF StartsWith(g, "G_TYPE_") THEN g ELSE g \o "()"

C3_Witness ==
    /\ count > 0
    /\ node.get_type = Some("widget_get_type")
    /\ get_type = "widget_get_type()"
    /\ error = "none"

\* The fundamental fallback identity fixed by each kind that has one
FallbackTable ==
    [enum |-> "G_TYPE_ENUM", bitfield |-> "G_TYPE_FLAGS", class |-> "G_TYPE_OBJECT",
     interface |-> "G_TYPE_INTERFACE", callback |-> "G_TYPE_POINTER",
     record |-> "G_TYPE_BOXED", union |-> "G_TYPE_BOXED", boxed |-> "G_TYPE_BOXED",
     member |-> "G_TYPE_INT"]

\* C4: for an entity of kind enum, bitfield, class, interface, callback,
\* record, union, boxed or member the fundamental fallback identity in force
\* is the one of the table, whatever entities were processed before it.
C4_FallbackTable ==
    (count > 0 /\ node_type \in DOMAIN FallbackTable)
    => fundamental_gtype = FallbackTable[node_type]

C4_Witness ==
    /\ count = 2
    /\ node_type = "member"
    /\ fundamental_gtype = "G_TYPE_INT"
    /\ Len(writer.data) > mark

\* The capability checks in their precedence order, with the label of each
KindOrder ==
    << <<"Function", "function">>, <<"FunctionMacro", "functionmacro">>,
       <<"Enum", "enum">>, <<"Bitfield", "bitfield">>, <<"Class", "class">>,
       <<"Interface", "interface">>, <<"Callback", "callback">>,
       <<"Record", "record">>, <<"Union", "union">>, <<"Boxed", "boxed">>,
       <<"Member", "member">>, <<"Alias", "alias">>, <<"Constant", "constant">>,
       <<"Type", "type">>, <<"Registered", "registered">> >>

\* C5: the kind label is the label of the earliest check, in the fixed
\* order, that the entity matches, and 'unknown' when it matches none.
C5_FirstMatchWins ==
    count > 0
    => LET matching == {i \in DOMAIN KindOrder : KindOrder[i][1] \in node.caps}
       IN  IF matching = {}
           THEN node_type = "unknown"
           ELSE \E i \in matching :
                    /\ \A j \in matching : i <= j
                    /\ node_type = KindOrder[i][2]

C5_Witness ==
    /\ count > 0
    /\ node.caps = {"Union", "Record"}
    /\ node_type = "record"

\* C6: the resolved type name is the explicit gtype_name when present, else
\* target_fundamental when not in unregistered mode, else the empty string.
C6_TypeNameResolution ==
    count > 0
    => gtype_name =
           IF node.gtype_name # None THEN node.gtype_name
           ELSE IF ~unregistered THEN node.target_fundamental
           ELSE Some("")

C6_Witness ==
    /\ count > 0
    /\ unregistered
    /\ node.gtype_name = None
    /\ node.target_fundamental = Some("Thing")
    /\ gtype_name = Some("")
    /\ error = "none"

\* The fallback constant of a kind: the table's, and G_TYPE_INVALID for the
\* kinds that fix none
KindFallback(kind) ==
    IF kind \in DOMAIN FallbackTable THEN FallbackTable[kind] ELSE "G_TYPE_INVALID"

\* C7: with no explicit get_type the identity expression is, in unregistered
\* mode, the fallback constant of the entity's kind, and otherwise
\* g_type_from_name("<T>") with T the entity's resolved type name.
C7_ImplicitIdentity ==
    (count > 0 /\ node.get_type = None)
    => get_type =
           IF unregistered THEN KindFallback(node_type)
           ELSE "g_type_from_name(\"" \o PyStr(gtype_name) \o "\")"

\* How many chunks written by the last iteration satisfy P
CountWritten(P(_)) == Cardinality({i \in DOMAIN Written : P(Written[i])})

IsWarning(chunk) == StartsWith(chunk, Indentation \o "/* WARNING:")

IsOpenMarker(chunk) == chunk = Indentation \o "/*"

IsCloseMarker(chunk) == chunk = Indentation \o "*/"

\* The first chunk of the current entity's statement
IsRowStart(chunk) ==
    IF infoformat = "signalinfo"
    THEN chunk = Indentation \o SignalRow(namespace_name, node_type, gtype_name, get_type)
    ELSE IF infoformat = "propertyinfo"
    THEN chunk = Indentation \o PropertyRow(namespace_name, node_type, gtype_name, get_type)
    ELSE chunk = Indentation \o TypeRowFormat

\* The number of chunks of a complete statement: the format and the
\* argument line in the type-info shape, one line in the others, and the
\* newline
RowLength == IF infoformat \in {"signalinfo", "propertyinfo"} THEN 2 ELSE 3

\* The entity's type name is a member of the excluded-gtypes set
TypeNameExcluded == gtype_name # None /\ gtype_name[1] \in exclude_gtypes

\* C8: for every entity whose classification reaches the storage-type step,
\* the storage type is the explicit ctype if present, else complete_ctype if
\* present, else the resolved type name when there is one; exactly in that
\* last case one warning comment naming the type is written, first of all
\* that the iteration writes, and none is written otherwise.
C8_StorageTypeAndWarning ==
    (count > 0 /\ error # "TypeError")
    => IF node.ctype # None
       THEN ctype = node.ctype /\ CountWritten(IsWarning) = 0
       ELSE IF node.complete_ctype # None
       THEN ctype = node.complete_ctype /\ CountWritten(IsWarning) = 0
       ELSE IF gtype_name # None
       THEN /\ ctype = gtype_name
            /\ CountWritten(IsWarning) = 1
            /\ Len(Written) >= 2
            /\ Written[1] = Indentation \o "/* WARNING: ctype is missing for '"
                                \o gtype_name[1] \o "' in GIR file */"
            /\ Written[2] = "\n"
            /\ \E i \in 3..Len(Written) : IsRowStart(Written[i])
       ELSE CountWritten(IsWarning) = 0

C8_Witness ==
    /\ count > 0
    /\ error = "none"
    /\ node.ctype = None
    /\ node.complete_ctype = None
    /\ gtype_name = Some("Thing")
    /\ ctype = Some("Thing")
    /\ CountWritten(IsWarning) = 1

\* C9: in the type-info shape, the row emitted for an entity whose type name
\* is in the excluded-gtypes set is immediately preceded by one '/*' chunk
\* and immediately followed by one '*/' line, the row being complete; the
\* row of an entity whose type name is not in the set has neither marker.
C9_ExclusionWrapsTypeInfoRow ==
    (count > 0 /\ infoformat = "typeinfo" /\ CountWritten(IsRowStart) > 0)
    => \E i \in DOMAIN Written :
          /\ IsRowStart(Written[i])
          /\ CountWritten(IsRowStart) = 1
          /\ IF TypeNameExcluded
             THEN /\ error = "none"
                  /\ i > 1
                  /\ IsOpenMarker(Written[i - 1])
                  /\ Len(Written) = i + RowLength + 1
                  /\ Written[i + 1] =
                         TypeRowArgs(namespace_name, node_type, gtype_name, ctype, get_type)
                  /\ Written[i + 2] = "\n"
                  /\ IsCloseMarker(Written[i + RowLength])
                  /\ Written[i + RowLength + 1] = "\n"
                  /\ CountWritten(IsOpenMarker) = 1
                  /\ CountWritten(IsCloseMarker) = 1
             ELSE /\ CountWritten(IsOpenMarker) = 0
                  /\ CountWritten(IsCloseMarker) = 0
                  /\ Len(Written) = i + RowLength - 1 \/ error = "UnboundLocalError"

C9_Witness ==
    /\ count > 0
    /\ infoformat = "typeinfo"
    /\ gtype_name = Some("Widget")
    /\ "Widget" \in exclude_gtypes
    /\ error = "none"
    /\ CountWritten(IsOpenMarker) = 1
    /\ CountWritten(IsCloseMarker) = 1

\* C10 as stated: in the property-info and signal-info shapes the statement
\* of an entity is never bracketed by '/*' and '*/'.
C10_NoWrappingInOtherShapes ==
    (count > 0 /\ infoformat \in {"propertyinfo", "signalinfo"})
    => CountWritten(IsOpenMarker) = 0 /\ CountWritten(IsCloseMarker) = 0

\* C10 amended: the exclusion wrapping is applied in the property-info and
\* signal-info shapes as well: the statement emitted for an entity is
\* immediately preceded by '/*' and followed by '*/' exactly when the
\* entity's type name is in the excluded-gtypes set.
C10_WrappingInEveryShape ==
    (count > 0 /\ infoformat \in {"propertyinfo", "signalinfo"}
        /\ CountWritten(IsRowStart) > 0)
    => \E i \in DOMAIN Written :
          /\ IsRowStart(Written[i])
          /\ Written[i + 1] = "\n"
          /\ IF TypeNameExcluded
             THEN /\ i > 1
                  /\ IsOpenMarker(Written[i - 1])
                  /\ Len(Written) = i + RowLength + 1
                  /\ IsCloseMarker(Written[i + RowLength])
                  /\ CountWritten(IsOpenMarker) = 1
                  /\ CountWritten(IsCloseMarker) = 1
             ELSE /\ CountWritten(IsOpenMarker) = 0
                  /\ CountWritten(IsCloseMarker) = 0
                  /\ Len(Written) = i + RowLength - 1

C10_Witness ==
    /\ count > 0
    /\ infoformat = "propertyinfo"
    /\ gtype_name = Some("Widget")
    /\ "Widget" \in exclude_gtypes
    /\ error = "none"
    /\ CountWritten(IsOpenMarker) = 1
    /\ CountWritten(IsCloseMarker) = 1

\* C11: every row emitted in the type-info shape, for any entity and in
\* either mode, is one printf statement: the format of six %s fields, then on
\* the same line the six arguments in the order namespace name, kind label,
\* type name, storage type, identity expression as a string, and the
\* fundamental of the identity expression resolved at run time.
C11_SixFieldRow ==
    (count > 0 /\ infoformat = "typeinfo" /\ CountWritten(IsRowStart) > 0)
    => \E i \in DOMAIN Written :
          /\ IsRowStart(Written[i])
          /\ CountWritten(IsRowStart) = 1
          /\ Len(Written) >= i + 2
          /\ ctype # Unbound
          /\ Written[i + 1] =
                 TypeRowArgs(namespace_name, node_type, gtype_name, ctype, get_type)
          /\ Written[i + 2] = "\n"

\* The fields of a record: the line without its surrounding whitespace, cut
\* at the commas
Fields(line) == Split(Strip(line), ",")

\* The type rows that declare the type name tn
TypeRowsOf(tn) ==
    {j \in DOMAIN typeinfo_file :
        Len(Fields(typeinfo_file[j])) = 6 /\ Fields(typeinfo_file[j])[3] = tn}

\* The last of a non-empty set of row numbers
Last(rows) == CHOOSE j \in rows : \A k \in rows : k <= j

\* C12: the 9th column of every property row of 8 columns is resolved by
\* three tiers in strict order: the identity of the type row that declares
\* the property's type name; else the identity of the registry entry indexed
\* under type name + pointer marker; else 'exclude' when the type name is in
\* the excluded-gtypes set and '?' when it is not.
C12_ThreeTierResolution ==
    \A i \in DOMAIN propinfo :
        LET f   == Fields(propinfo_file[i])
            out == Fields(propinfo[i])
            tn  == f[4]
            key == f[4] \o f[5]
        IN  /\ Len(f) = 8
            /\ Len(out) = 9
            /\ out[9] =
                   IF TypeRowsOf(tn) # {}
                   THEN Fields(typeinfo_file[Last(TypeRowsOf(tn))])[5]
                   ELSE IF \E e \in DOMAIN REGISTERED_TYPES :
                               REGISTERED_TYPES[e].ctype = key
                   THEN registered_ctype_names[key].get_type
                   ELSE IF tn \in exclude_gtypes THEN "exclude" ELSE "?"

C12_Witness ==
    /\ pc = "done"
    /\ "Widget" \in exclude_gtypes
    /\ "gint" \in exclude_gtypes
    /\ propinfo =
           <<"NS,class,Button,Widget,*,rw,parent,GObject,widget_get_type()\n",
             "NS,class,Button,gint,,rw,width,gint,G_TYPE_FLAGS\n">>

\* The text of an output line is one row: it ends with its only newline
IsOneRow(line) ==
    /\ line # ""
    /\ Find(line, "\n", 1) = Len(line)

\* C13: the merged file holds exactly one row per property row, in the same
\* order, and each is the property row with its 8 fields unchanged followed
\* by exactly one more field; nothing is dropped, duplicated or reordered.
C13_MergedRowsFrame ==
    merged_file.exists
    => /\ Len(merged_file.lines) = IF pc = "done" THEN Len(propinfo_file) ELSE lineno
       /\ \A i \in DOMAIN merged_file.lines :
              LET f   == Fields(propinfo_file[i])
                  out == Split(SubSeq(merged_file.lines[i], 1,
                                      Len(merged_file.lines[i]) - 1), ",")
              IN  /\ IsOneRow(merged_file.lines[i])
                  /\ Len(f) = 8
                  /\ Len(out) = 9
                  /\ SubSeq(out, 1, 8) = f

C13_Witness ==
    /\ pc = "done"
    /\ Len(propinfo_file) = 2
    /\ propinfo_file[1] # propinfo_file[2]
    /\ Len(merged_file.lines) = 2
    /\ Fields(merged_file.lines[1])[9] = "G_TYPE_STRING"
    /\ Fields(merged_file.lines[2])[9] = "?"

\* Line i of the type information file has been unpacked
TypeLineConsumed(i) ==
    pc # "extract_typeinfo" \/ lineno >= i

\* Line i of the property information file has been unpacked
PropLineConsumed(i) ==
    \/ pc \in {"write", "done"}
    \/ pc = "extract_propinfo" /\ lineno >= i
    \/ pc = "aborted" /\ propinfo # <<>>

\* C14: in merge mode a type record that has not exactly 6 fields, or a
\* property record that has not exactly 8 fields (every row of an already
\* merged file has 9), aborts the run with a parse failure, and the merged
\* file has not been created when it does.
C14_MalformedRecordAborts ==
    /\ \A i \in DOMAIN typeinfo_file :
           (TypeLineConsumed(i) /\ Len(Fields(typeinfo_file[i])) # 6)
           => pc = "aborted"
    /\ \A i \in DOMAIN propinfo_file :
           (PropLineConsumed(i) /\ Len(Fields(propinfo_file[i])) # 8)
           => pc = "aborted"
    /\ pc = "aborted" => (error = "ValueError" /\ ~merged_file.exists)
    /\ merged_file.exists => pc \in {"write", "done"}

C14_Witness ==
    /\ pc = "aborted"
    /\ error = "ValueError"
    /\ lineno = 2
    /\ Len(propinfo) = 1
    /\ propinfo_file[2] = "NS,class,Button,Widget,*,rw,parent,GObject,?\n"
    /\ ~merged_file.exists

\* The entries after entry e in REGISTERED_TYPES that share its ctype
LaterWithCtype(e) ==
    {j \in DOMAIN REGISTERED_TYPES :
        j > e /\ REGISTERED_TYPES[j].ctype = REGISTERED_TYPES[e].ctype}

\* C15: once the indices are built, for every entry e of REGISTERED_TYPES
\* the entry found under e.gtype_name in registered_type_names has the
\* get_type of e, and the entry found under e.ctype in
\* registered_ctype_names has the get_type of e unless an entry later in the
\* list shares e.ctype; a lookup returns what the index holds.
C15_LookupByOwnKeys ==
    typeval_i = Len(REGISTERED_TYPES)
    => /\ \A e \in DOMAIN REGISTERED_TYPES :
              LET t == REGISTERED_TYPES[e]
                  byName  == DictGet(names_index, Some(t.gtype_name))
                  byCtype == DictGet(ctypes_index, t.ctype)
              IN  /\ byName # None
                  /\ byName[1].get_type = t.get_type
                  /\ byCtype # None
                  /\ LaterWithCtype(e) = {} => byCtype[1].get_type = t.get_type
       /\ query > 0 => (found # None
                        /\ found[1].get_type = REGISTERED_TYPES[query].get_type)
       /\ (query < 0 /\ LaterWithCtype(-query) = {})
              => (found # None
                  /\ found[1].get_type = REGISTERED_TYPES[-query].get_type)
       /\ names_index = registered_type_names
       /\ ctypes_index = registered_ctype_names

C15_Witness ==
    /\ typeval_i = Len(REGISTERED_TYPES)
    /\ query < 0
    /\ REGISTERED_TYPES[-query].gtype_name = "GStrv"
    /\ found = Some(RegisteredType("GStrv", "gchar**", "G_TYPE_STRV"))

\* The entries of REGISTERED_TYPES that have the ctype c
WithCtype(c) == {j \in DOMAIN REGISTERED_TYPES : REGISTERED_TYPES[j].ctype = c}

\* C16: entries of REGISTERED_TYPES that share a ctype ('gint': gint, GEnum,
\* GFlags; 'gchar*': utf8, filename) raise no error while the indices are
\* built, the ctype index maps the shared ctype to the entry that is last in
\* list order, and every entry of the list is still retrievable by its name.
C16_DuplicateCtypeLastWins ==
    /\ error = "none"
    /\ \A c \in DOMAIN ctypes_index :
           LET seen == {j \in WithCtype(c) : j <= typeval_i}
           IN  /\ seen # {}
               /\ ctypes_index[c] = REGISTERED_TYPES[Last(seen)]
    /\ typeval_i = Len(REGISTERED_TYPES)
       => /\ Cardinality(WithCtype("gint")) = 3
          /\ ctypes_index["gint"] = RegisteredType("GFlags", "gint", "G_TYPE_FLAGS")
          /\ Cardinality(WithCtype("gchar*")) = 2
          /\ ctypes_index["gchar*"] = RegisteredType("filename", "gchar*", "G_TYPE_STRING")
          /\ Cardinality(DOMAIN names_index) = Len(REGISTERED_TYPES)
          /\ Cardinality(DOMAIN ctypes_index) < Len(REGISTERED_TYPES)
          /\ \A e \in DOMAIN REGISTERED_TYPES :
                 names_index[Some(REGISTERED_TYPES[e].gtype_name)] = REGISTERED_TYPES[e]

C16_Witness ==
    /\ typeval_i = Len(REGISTERED_TYPES)
    /\ query < 0
    /\ REGISTERED_TYPES[-query].gtype_name = "gint"
    /\ found = Some(RegisteredType("GFlags", "gint", "G_TYPE_FLAGS"))

\* The number of indentation characters a chunk starts with
IndentOf(chunk) ==
    CHOOSE n \in 0..Len(chunk) :
        /\ SubSeq(chunk, 1, n) = Repeat(" ", n)
        /\ n = Len(chunk) \/ SubSeq(chunk, n + 1, n + 1) # " "

OpeningMarker(scope_name) == "{ /* " \o scope_name \o " */"

ClosingMarker(scope_name) == "} /* " \o scope_name \o " */"

\* C17: in a sequence of push_scope and pop_scope calls with no pop on an
\* empty stack, a push writes its opening marker and then raises the
\* indentation by 2; a pop lowers the indentation by 2, then returns the name
\* of the most recent push not yet popped and writes the closing marker
\* annotated with it, at the indentation of the matching opening marker.
C17_ScopesLastInFirstOut ==
    (~underflowed /\ last # None)
    => /\ [i \in DOMAIN pending |-> pending[i].name] = writer.scope_stack
       /\ last.op = "push"
          => /\ Len(writer.data) = last.len_before + 2
             /\ writer.data[last.len_before + 1] =
                    Repeat(" ", last.indent_before) \o OpeningMarker(last.name[1])
             /\ writer.data[last.len_before + 2] = "\n"
             /\ writer.indent = last.indent_before + 2
             /\ writer.scope_stack[Len(writer.scope_stack)] = last.name[1]
       /\ last.op = "pop"
          => /\ ~last.raised
             /\ last.match # None
             /\ last.ret = Some(last.match.name)
             /\ Len(writer.data) = last.len_before + 2
             /\ writer.data[last.len_before + 1] =
                    Repeat(" ", last.indent_before - 2) \o ClosingMarker(last.match.name)
             /\ writer.data[last.len_before + 2] = "\n"
             /\ writer.indent = last.indent_before - 2
             /\ writer.data[last.match.at] =
                    Repeat(" ", writer.indent) \o OpeningMarker(last.match.name)
             /\ IndentOf(writer.data[last.match.at]) =
                    IndentOf(writer.data[last.len_before + 1])

C17_Witness ==
    /\ ~underflowed
    /\ last # None
    /\ last.op = "pop"
    /\ last.ctx = "direct"
    /\ last.ret = Some("block")
    /\ writer.scope_stack = <<"function">>
    /\ writer.indent = 2
    /\ Len(writer.data) = 8

\* C18: when a with block of scopecontext(name) is left, by the end of a
\* body that wrote its statements or by an exception the body raised, the
\* pop_scope of the block has run: the closing marker of name is written,
\* and the scope stack and the indentation are what they were before the
\* block was entered.
C18_ContextRestoresScope ==
    (last # None /\ last.ctx = "exit" /\ ~last.frame.direct)
    => /\ last.op = "pop"
       /\ ~last.raised
       /\ last.ret = Some(last.frame.name)
       /\ Len(writer.data) = last.len_before + 2
       /\ writer.data[last.len_before + 1] =
              Repeat(" ", last.frame.indent) \o ClosingMarker(last.frame.name)
       /\ writer.data[last.len_before + 2] = "\n"
       /\ writer.scope_stack = last.frame.scope_stack
       /\ writer.indent = last.frame.indent

C18_Witness ==
    /\ last # None
    /\ last.ctx = "exit"
    /\ last.failed
    /\ error = "BodyError"
    /\ ~last.frame.direct
    /\ last.frame.name = "block"
    /\ last.frame.scope_stack = <<"function">>
    /\ writer.scope_stack = <<"function">>
    /\ writer.data[Len(writer.data) - 3] = "    statement;"

\* C19: pop_scope called while the scope stack is empty raises an error and
\* writes no closing marker: the buffer is as it was before the call.
C19_PopOnEmptyStackRaises ==
    (last # None /\ last.op = "pop" /\ last.empty_before)
    => /\ last.raised
       /\ last.ret = None
       /\ underflowed
       /\ Len(writer.data) = last.len_before
       /\ writer.scope_stack = <<>>

C19_Witness ==
    /\ last # None
    /\ last.op = "pop"
    /\ last.empty_before
    /\ error = "IndexError"
    /\ Len(writer.data) = 4
    /\ ctx_stack = <<>>

\* The chunks the header buffer gained since the loop over the input files
\* started, the footer of lines 1287-1288 left out
HeaderGained ==
    SubSeq(header_writer.data, Len(HeaderStart.data) + 1,
           Len(header_writer.data) - (IF stage = "done" THEN 3 ELSE 0))

\* The chunks the driver buffer gained, the footer of lines 1291-1297 left out
MainGained ==
    SubSeq(main_writer.data, Len(MainStart.data) + 1,
           Len(main_writer.data) - (IF stage = "done" THEN 2 ELSE 0))

\* C20: at every point of a run of the emission pipeline, each namespace
\* processed so far (each call of typeinformation_gir, typeinformation_ctypes
\* or typeinformation_registered, in call order) has added exactly one line,
\* its prototype declaration, to the shared header buffer and exactly two
\* lines, its progress message and its call, to the shared driver buffer, and
\* nothing else was added to either; this holds for every number of entities
\* of the namespace and in every output shape.  A run that completes has
\* processed every input file once, or twice when the type-info option is
\* set, and the registry once.
C20_OneDeclarationTwoDriverLines ==
    stage # "idle" =>
        /\ Len(HeaderGained) = 2 * Len(processed)
        /\ Len(MainGained) = 4 * Len(processed)
        /\ \A i \in DOMAIN processed :
              LET ns == processed[i].namespace
                  infix == IF processed[i].unregistered THEN "ctypes" ELSE ""
              IN  /\ HeaderGained[2 * i - 1] = PrototypeLine(ns)
                  /\ HeaderGained[2 * i] = "\n"
                  /\ MainGained[4 * i - 3] = DriverLines(ns, infix)[1]
                  /\ MainGained[4 * i - 2] = "\n"
                  /\ MainGained[4 * i - 1] = DriverLines(ns, infix)[2]
                  /\ MainGained[4 * i] = "\n"
        /\ stage = "done" =>
              Len(processed) = (IF options.typeinfo THEN 2 ELSE 1) * Len(filenames) + 1

\* A completed type-info run that processed a namespace without entities, a
\* namespace with two entities, and the registry with all of its entries
C20_Witness ==
    /\ stage = "done"
    /\ infoformat = "typeinfo"
    /\ \E i, j, k \in DOMAIN processed :
          /\ processed[i].entities = 0
          /\ processed[j].entities = 2
          /\ processed[k].entities = Len(REGISTERED_TYPES)
    /\ Len(HeaderGained) = 10
    /\ Len(MainGained) = 20

\* a is an initial part of b
IsPrefix(a, b) == Len(a) <= Len(b) /\ SubSeq(b, 1, Len(a)) = a

\* The entries of the write history fl made for the shared buffer of file name
SharedWrites(fl, name) ==
    {i \in DOMAIN fl : fl[i].pass = 0 /\ fl[i].buffer = name}

\* One step of an emission run, for C21
C21_Step ==
    stage # "idle" =>
        \* the shared buffers are only appended to
        /\ IsPrefix(header_writer.data, header_writer'.data)
        /\ IsPrefix(main_writer.data, main_writer'.data)
        /\ IsPrefix(cmake_writer.data, cmake_writer'.data)
        \* a shared buffer that was written to its file is not appended to
        /\ SharedWrites(flushed, "girtypes.h") # {} => header_writer' = header_writer
        /\ SharedWrites(flushed, "girtypes.c") # {} => main_writer' = main_writer
        /\ SharedWrites(flushed, "CMakeLists.txt") # {} => cmake_writer' = cmake_writer
        \* no buffer is written to its file twice
        /\ IsPrefix(flushed, flushed')
        /\ \A i, j \in DOMAIN flushed' :
              (flushed'[i].pass = flushed'[j].pass
                  /\ flushed'[i].buffer = flushed'[j].buffer) => i = j
        \* what a file received is the whole of its buffer
        /\ \A i \in SharedWrites(flushed', "girtypes.h") :
              flushed'[i].text = get_source(header_writer')
        /\ \A i \in SharedWrites(flushed', "girtypes.c") :
              flushed'[i].text = get_source(main_writer')
        /\ \A i \in SharedWrites(flushed', "CMakeLists.txt") :
              flushed'[i].text = get_source(cmake_writer')
        /\ \A i \in DOMAIN flushed' :
              (flushed'[i].pass = Len(processed') /\ flushed'[i].pass > 0)
                  => flushed'[i].text = get_source(writer')
        \* a run that completes has written every buffer
        /\ stage' = "done" =>
              /\ \A k \in DOMAIN processed' :
                    \E i \in DOMAIN flushed' : flushed'[i].pass = k
              /\ SharedWrites(flushed', "girtypes.h") # {}
              /\ SharedWrites(flushed', "girtypes.c") # {}
              /\ SharedWrites(flushed', "CMakeLists.txt") # {}

\* C21: in an emission run every step only appends to the shared header,
\* driver and build-file buffers; a buffer is written to its file at most
\* once, what the file receives is the whole text of the buffer, and nothing is
\* appended to a buffer once it has been written; when the run completes,
\* every per-namespace buffer and each of the three shared buffers has been
\* written exactly once.
C21_BuffersFlushedOnce == [][C21_Step]_vars

\* A completed type-info run over two input files: five per-namespace
\* buffers and the three shared buffers were written
C21_Witness ==
    /\ stage = "done"
    /\ Len(processed) = 5
    /\ Len(flushed) = 8
    /\ flushed[8].buffer = "CMakeLists.txt"
    /\ flushed[8].text = get_source(cmake_writer)

\* The chunks the last call appended to the writer with whitespace enabled
CallWritten == SubSeq(writer.data, Len(call[1].writer.data) + 1, Len(writer.data))

\* The chunks the last call appended to the writer with whitespace disabled
CallMinified == SubSeq(minified.data, Len(call[1].minified.data) + 1, Len(minified.data))

\* s holds no line ending
OneLine(s) == Find(s, "\n", 1) = 0

\* The lines of a text, for C22: the text cut at every "\n", a line ending at
\* the end of the text ending its last line
TextLines(text) ==
    LET ends == {i \in 1..Len(text) : SubSeq(text, i, i) = "\n"}
        starts == {1} \cup {i + 1 : i \in ends}
        EndOf(b) == IF \E e \in ends : e >= b
                    THEN (CHOOSE e \in ends : e >= b /\ \A f \in ends : f >= b => e <= f) - 1
                    ELSE Len(text)
        begun == {b \in starts : b <= Len(text)}
        Nth(k) == CHOOSE b \in begun : Cardinality({c \in begun : c < b}) = k - 1
    IN  [k \in 1..Cardinality(begun) |-> SubSeq(text, Nth(k), EndOf(Nth(k)))]

\* C22: write_comment(text) writes a text of one line as the single line
\* begin + line + end; it writes any other text as the open marker on a line
\* of its own, one line middle + line for each line of the text in order, and
\* on a last line the close marker, or the open marker when the style has no
\* close marker.  Every line written is one line: the indentation, the line,
\* no line ending inside it, then the newline.
C22_CommentLayout ==
    (call # None /\ call[1].name = "write_comment") =>
        LET w == call[1].writer
            lines == TextLines(call[1].text)
            ind == Repeat(" ", w.indent)
            Line(i) == CallWritten[2 * i - 1]
        IN  /\ \A i \in 1..(Len(CallWritten) \div 2) :
                  OneLine(Line(i)) /\ CallWritten[2 * i] = "\n"
            /\ IF Len(lines) = 1
               THEN /\ Len(CallWritten) = 2
                    /\ Line(1) = ind \o w.begin_comment \o lines[1] \o w.end_comment
               ELSE /\ Len(CallWritten) = 2 * (Len(lines) + 2)
                    /\ Line(1) = ind \o w.begin_comment
                    /\ \A i \in DOMAIN lines :
                          Line(i + 1) = ind \o w.middle_comment \o lines[i]
                    /\ Line(Len(lines) + 2) =
                          ind \o (IF w.end_comment # "" THEN w.end_comment
                                  ELSE w.begin_comment)

\* The indentation prefix of the lines the last call wrote with whitespace
\* enabled: push_scope writes its marker before it raises the indentation,
\* pop_scope after it has lowered it
CallPrefix ==
    IF call[1].name = "write_source_flat" THEN ""
    ELSE Repeat(" ", IF call[1].name = "pop_scope" THEN writer.indent
                     ELSE call[1].writer.indent)

\* Chunk i of a call is a line terminator the writer wrote
IsTerminator(i) ==
    /\ call[1].name \notin {"write_source", "write_source_flat"}
    /\ i % 2 = 0

\* C23: after every call of write_line, write_source, write_comment,
\* push_scope or pop_scope made on a writer with whitespace enabled and on a
\* writer with whitespace disabled, both have made the same number of writes;
\* where the first wrote a line terminator the second wrote the empty string,
\* and where the first wrote an indentation prefix and a line the second wrote
\* the line alone; the scope stacks and the indentation counters are equal.
C23_MinifiedSameStructure ==
    call # None =>
        /\ minified.scope_stack = writer.scope_stack
        /\ minified.indent = writer.indent
        /\ Len(minified.data) = Len(writer.data)
        /\ Len(call[1].minified.data) = Len(call[1].writer.data)
        /\ \A i \in DOMAIN CallWritten :
              IF IsTerminator(i)
              THEN CallWritten[i] = "\n" /\ CallMinified[i] = ""
              ELSE CallWritten[i] = CallPrefix \o CallMinified[i]

\* A comment of two lines written inside two scopes: the lines are indented
\* by four in one writer and not at all in the other
C23_Witness ==
    /\ ncalls = 3
    /\ call[1].name = "write_comment"
    /\ call[1].text = "a\nb"
    /\ writer.scope_stack = <<"block", "block">>
    /\ CallWritten[3] = "     * a"
    /\ CallMinified[3] = " * a"
    /\ CallWritten[4] = "\n"
    /\ CallMinified[4] = ""

\* C24: in every state a sequence of push_scope, pop_scope and scopecontext
\* calls reaches, the state after a pop_scope that failed on an empty stack
\* included, the indentation counter is twice the number of names on the
\* scope stack and is not negative.
C24_IndentTracksStack ==
    /\ writer.indent = 2 * Len(writer.scope_stack)
    /\ writer.indent >= 0

\* The kinds whose branch of lines 350-389 assigns no fundamental identity
KindsWithoutFallback ==
    {"function", "functionmacro", "alias", "type", "registered", "unknown"}

\* C25: in unregistered mode, an entity without explicit get_type whose kind
\* is function, functionmacro, alias, type, registered or unknown gets the
\* identity G_TYPE_INVALID, whatever entities the same call classified before
\* it.
C25_FallbackOfOwnKind ==
    (/\ unregistered
     /\ count > 0
     /\ error = "none"
     /\ node.get_type = None
     /\ node_type \in KindsWithoutFallback)
        => get_type = "G_TYPE_INVALID"

\* The storage type an entity yields by itself: its ctype, else its
\* complete_ctype, else its resolved type name
OwnCtype(n, gn) ==
    IF n.ctype # None THEN n.ctype
    ELSE IF n.complete_ctype # None THEN n.complete_ctype
    ELSE gn

\* C26: in the type-info shape, for every entity whose classification reaches
\* the storage type, the row is written with a storage-type field that is
\* defined and is the entity's own ctype, else its own complete_ctype, else
\* its resolved type name; this also holds for an entity that has none of the
\* three, and the field is never the value an earlier entity left.
C26_StorageTypeOfOwnEntity ==
    (infoformat = "typeinfo" /\ count > 0 /\ error # "TypeError") =>
        /\ error = "none"
        /\ ctype # Unbound
        /\ ctype = OwnCtype(node, gtype_name)

\* The function a call line `    print_.._types();` of the driver calls
CalledFunction(line) == SubSeq(line, 5, Len(line) - 3)

\* C27: during and after an emission run, every function called by a call
\* line of the driver buffer has a prototype line of the same name in the
\* header buffer, and the function called for the namespace processed last is
\* defined under that name in the source buffer of that namespace.
C27_CalledFunctionsDeclared ==
    stage # "idle" =>
        \A i \in DOMAIN processed :
            LET f == CalledFunction(MainGained[4 * i - 1])
            IN  /\ \E k \in DOMAIN header_writer.data :
                      header_writer.data[k] = "void " \o f \o "();"
                /\ i = Len(processed) =>
                      \E k \in DOMAIN writer.data : writer.data[k] = "void " \o f \o "()"

\* The calls a run makes for one input file: one, or two when --typeinfo is
\* set
CallsPerFile == IF options.typeinfo THEN 2 ELSE 1

\* The k-th call line of the driver, from the input files in their order
ExpectedCall(k) ==
    IF k = CallsPerFile * Len(filenames) + 1 THEN "    print_registered_types();"
    ELSE LET ns == filenames[(k - 1) \div CallsPerFile + 1].namespace.name
         IN  IF (k - 1) % CallsPerFile = 1
             THEN "    print_" \o ns \o "_ctypes_types();"
             ELSE "    print_" \o ns \o "_types();"

\* C28: at every point of an emission run the call lines of the driver are,
\* in input-file order, the call for the namespace of each input file, each
\* followed by the call for its unregistered ctypes when --typeinfo is set,
\* and after the calls of all input files the call for the registered types;
\* the footer that closes print_all_types and defines main is in the driver
\* only when the run is complete, and then it follows all of these calls, the
\* call for the registered types being there once.
C28_CallsInInputOrder ==
    stage # "idle" =>
        /\ Len(MainGained) % 4 = 0
        /\ Len(MainGained) \div 4 <= CallsPerFile * Len(filenames) + 1
        /\ \A k \in 1..(Len(MainGained) \div 4) : MainGained[4 * k - 1] = ExpectedCall(k)
        /\ stage # "done" =>
              \A i \in DOMAIN main_writer.data : main_writer.data[i] # MainFooter
        /\ stage = "done" =>
              /\ Len(MainGained) \div 4 = CallsPerFile * Len(filenames) + 1
              /\ main_writer.data[Len(main_writer.data) - 1] = MainFooter
              /\ main_writer.data =
                    MainStart.data \o MainGained \o <<MainFooter, "\n">>

\* A completed run with --typeinfo over the files of Gtk and Empty, in that
\* order
C28_Witness ==
    /\ stage = "done"
    /\ options.typeinfo
    /\ Len(filenames) = 2
    /\ filenames[1].namespace.name = "Gtk"
    /\ filenames[2].namespace.name = "Empty"
    /\ MainGained[3] = "    print_Gtk_types();"
    /\ MainGained[7] = "    print_Gtk_ctypes_types();"
    /\ MainGained[11] = "    print_Empty_types();"
    /\ MainGained[15] = "    print_Empty_ctypes_types();"
    /\ MainGained[19] = "    print_registered_types();"

\* The places of the build-file buffer at which the lines of a package start
PackageStarts ==
    {k \in DOMAIN cmake_writer.data :
        StartsWith(cmake_writer.data[k], "pkg_check_modules (PKG")}

\* The packages named by the input files
AllPackages == UNION {f.namespace.exported_packages : f \in InputFiles}

\* The packages of the first k input files, counted once per file
RECURSIVE PackagesOfFiles(_)
PackagesOfFiles(k) ==
    IF k = 0 THEN 0
    ELSE PackagesOfFiles(k - 1) + Cardinality(filenames[k].namespace.exported_packages)

\* C29: in an emission run the packages written to the build file carry the
\* indices 1, 2, 3, ... in the order they are written, across all namespaces,
\* so no index is used twice; the five lines of a package carry one index; the
\* counter of the code context is the number of packages written, and a run
\* that completes has written every package of every input file.
C29_PackageIndices ==
    stage # "idle" =>
        /\ pkg_index = Cardinality(PackageStarts)
        /\ \A p \in PackageStarts :
              LET i == Str(Cardinality({q \in PackageStarts : q <= p}))
                  d == cmake_writer.data
              IN  /\ p + 10 <= Len(d)
                  /\ \E pkg \in AllPackages :
                        d[p] = "pkg_check_modules (PKG" \o i \o " REQUIRED " \o pkg \o ")"
                  /\ d[p + 2] = "list(APPEND PROJECT_INCLUDE_DIRECTORIES ${PKG" \o i
                                    \o "_INCLUDE_DIRS})"
                  /\ d[p + 4] = "list(APPEND PROJECT_LINK_DIRECTORIES ${PKG" \o i
                                    \o "_LIBRARY_DIRS})"
                  /\ d[p + 6] = "set(CMAKE_C_FLAGS \"${CMAKE_C_FLAGS} ${PKG" \o i
                                    \o "_CFLAGS}\")"
                  /\ d[p + 8] = "list(APPEND PROJECT_LIBRARIES ${PKG" \o i \o "_LIBRARIES})"
        /\ stage = "done" => pkg_index = PackagesOfFiles(Len(filenames))

\* The file of Gtk given twice: its two packages are written twice, under
\* four indices
C29_Witness ==
    /\ stage = "done"
    /\ pkg_index = 4
    /\ \E p, q \in PackageStarts :
          /\ cmake_writer.data[p] = "pkg_check_modules (PKG2 REQUIRED gtk+-3.0)"
          /\ cmake_writer.data[q] = "pkg_check_modules (PKG4 REQUIRED gtk+-3.0)"
          /\ p < q

\* C30: an emission run without input files raises no error and does not
\* stop early: it goes on to the footers, and when it is complete the source
\* file of the registered types, the header, the driver and the build file
\* have all been written.
C30_RunWithoutInputFiles ==
    (stage # "idle" /\ filenames = <<>>) =>
        /\ error = "none"
        /\ stage \in {"gir", "footer", "done"}
        /\ stage = "done" =>
              \A name \in {"registered.c", "girtypes.h", "girtypes.c", "CMakeLists.txt"} :
                  \E i \in DOMAIN flushed : flushed[i].buffer = name

====
